---- MODULE Spec2Model ----
(***************************************************************************)
(* Model of the simulation-execution engine of sn_simulation:              *)
(*   src/sn_simu_wrapper/sn_simu.py   SNSimulation (run, prepareSave,      *)
(*                                    simuSeason, simuLoop, dump, writeLC, *)
(*                                    setIndex, save_metadata)             *)
(*   src/sn_simulator/sn_cosmo.py     Physics backend (SN.__call__)        *)
(*   src/sn_simulator/sn_fast.py      FastTable backend (SN.transform)     *)
(*                                                                         *)
(* Units.  Floating-point quantities are carried as integers:              *)
(*   z, daymax          in units of 1e-4   (np.round(., 3) is modelled)    *)
(*   x1, color          in units of 1e-3                                   *)
(*   epsilon_*          in units of 1e-10                                  *)
(* An integer n in units of 1/b stands for the double nearest to n/b, and  *)
(* the products and quotients the code takes of such values are rounded as *)
(* IEEE doubles are.                                                       *)
(* Strings are TLA+ strings; number formatting is spelled out digit by     *)
(* digit (IntStr, FloatStr).                                               *)
(***************************************************************************)
EXTENDS Integers, Sequences, FiniteSets, TLC

VARIABLES
    cfg,            \* engine configuration: nprocs, simulator name, save_status,
                    \* and which SN.__init__ the simulator module has
    pc,             \* position of the parent process
    iproc,          \* multiprocessing tag of the current run() call
    healpixID,      \* pixel of the observations of the current run() call
    season,         \* season being processed
    seasons,        \* seasons still to come in the loop of run()
    obs_season,     \* visits of that season, as selected from the observations
    budget,         \* seasons the environment may still submit, a call of
                    \* run() without a season counting as one
    nprocdict,      \* self.nprocdict: tags already prepared
    SNID,           \* self.SNID of the parent: tag -> counter
    sn_meta,        \* self.sn_meta of the parent: tag -> dict of lists
    meta_order,     \* the keys of self.sn_meta in the order of their insertion
    lcFile,         \* light-curve artifacts: tag -> entries written
    simuFile,       \* summary artifacts: tag -> record-sets written
    gen_params,     \* parameter grid of the current season
    batch,          \* shard boundaries of the current season
    nstart,         \* number of worker processes started so far
    result_queue,   \* multiprocessing.Queue of the current season
    resultdict,     \* results collected by the parent, keyed by shard index
                    \* (a dict in insertion order: a sequence of [key, val])
    shared,         \* shard index whose dict in resultdict is the very object
                    \* bound to self.sn_meta[iproc], -1 when there is none
    nrecv,          \* number of receives the parent has completed
    mj,             \* next shard index to merge
    proc,           \* shard index -> state of the worker process
    arg,            \* input of the function under study (function specifications)
    res             \* its result

vars == <<cfg, pc, iproc, healpixID, season, seasons, obs_season, budget, nprocdict,
          SNID, sn_meta, meta_order, lcFile, simuFile, gen_params, batch, nstart,
          result_queue, resultdict, shared, nrecv, mj, proc, arg, res>>

engineVars == <<cfg, pc, iproc, healpixID, season, seasons, obs_season, budget,
                nprocdict, SNID, sn_meta, meta_order, lcFile, simuFile, gen_params,
                batch, nstart, result_queue, resultdict, shared, nrecv, mj, proc>>

(***************************************************************************)
(* Bounds of the model.                                                    *)
(***************************************************************************)
MaxProcs   == 2      \* largest configured Multiprocessing.nproc
MaxNlc     == 3      \* largest parameter grid of a season (engine specification)
MaxSeasons == 2      \* seasons submitted over the life of the engine
MaxTotal   == 40     \* largest grid size in the partition specification
MaxN       == 22     \* largest worker count in the partition specification
MaxLoopNlc == 41     \* largest grid in the single-worker loop specification

(***************************************************************************)
(* Number formatting: '{}'.format(v).                                      *)
(***************************************************************************)
Abs(n) == IF n < 0 THEN -n ELSE n

DigitChar(d) == CASE d = 0 -> "0" [] d = 1 -> "1" [] d = 2 -> "2" [] d = 3 -> "3"
                  [] d = 4 -> "4" [] d = 5 -> "5" [] d = 6 -> "6" [] d = 7 -> "7"
                  [] d = 8 -> "8" [] d = 9 -> "9"

RECURSIVE NatStr(_)
NatStr(n) == IF n < 10 THEN DigitChar(n) ELSE NatStr(n \div 10) \o DigitChar(n % 10)

\* str(int)
IntStr(n) == IF n < 0 THEN "-" \o NatStr(-n) ELSE NatStr(n)

\* the decimals of f/1000 (0 <= f < 1000), trailing zeros removed, one kept
FracStr(f) == IF f = 0 THEN "0"
              ELSE IF f % 100 = 0 THEN DigitChar(f \div 100)
              ELSE IF f % 10 = 0 THEN DigitChar(f \div 100) \o DigitChar((f \div 10) % 10)
              ELSE DigitChar(f \div 100) \o DigitChar((f \div 10) % 10) \o DigitChar(f % 10)

\* str(float) of the value m/1000: shortest repr, e.g. 300 -> "0.3", -2000 -> "-2.0"
FloatStr(m) == (IF m < 0 THEN "-" ELSE "") \o NatStr(Abs(m) \div 1000)
               \o "." \o FracStr(Abs(m) % 1000)

(***************************************************************************)
(* Double-precision arithmetic.  x = fl(a/b), the double nearest to a/b,   *)
(* has the exponent ex = FloorLog2(a, b) and differs from a/b by a         *)
(* fraction of its last place: with b = 2^t * bo, bo odd, and              *)
(* rem = (a * 2^(52-ex-t)) mod bo, x is rem/bo of a last place below a/b   *)
(* when 2*rem < bo and (bo-rem)/bo of a last place above when 2*rem > bo.  *)
(* A product M*x whose exact value M*a/b is a double comes out as that     *)
(* value unless the difference, M times over, is more than half the        *)
(* distance from it to the next double on that side.                       *)
(***************************************************************************)
\* floor(log2(a/b)) for a, b > 0
RECURSIVE FloorLog2(_, _)
FloorLog2(a, b) == IF a >= b
                   THEN IF a >= 2 * b THEN 1 + FloorLog2(a, 2 * b) ELSE 0
                   ELSE FloorLog2(2 * a, b) - 1

RECURSIVE Pow2(_)
Pow2(n) == IF n = 0 THEN 1 ELSE 2 * Pow2(n - 1)

\* (r * 2^k) mod m, seven doublings at a time (m below 2^24)
RECURSIVE MulPow2Mod(_, _, _)
MulPow2Mod(r, k, m) == IF k = 0 THEN r % m
                       ELSE IF k >= 7 THEN MulPow2Mod((128 * (r % m)) % m, k - 7, m)
                       ELSE MulPow2Mod((2 * (r % m)) % m, k - 1, m)

RECURSIVE OddPart(_)
OddPart(b) == IF b % 2 = 0 THEN OddPart(b \div 2) ELSE b

RECURSIVE TwoPart(_)
TwoPart(b) == IF b % 2 = 0 THEN 1 + TwoPart(b \div 2) ELSE 0

IsPow2(t) == OddPart(t) = 1

\* A * 2^p > B * 2^q
ScaledMore(A, p, B, q) == IF p >= q THEN A * Pow2(p - q) > B
                          ELSE A > B * Pow2(q - p)

\* np.round(v, 3) of a non-negative value given in units of 1e-4, result in
\* units of 1e-3: rint(v * 1000) / 1000, rint rounding half to even.  Only
\* when v4 ends in 5 can the product v * 1000 miss the half it is next to.
Round3(v4) ==
    LET quo  == v4 \div 10
        last == v4 % 10
    IN  IF last < 5 THEN quo
        ELSE IF last > 5 THEN quo + 1
        ELSE LET ex   == FloorLog2(v4, 10000)
                 rem  == MulPow2Mod(v4 % 625, 48 - ex, 625)
                 eP   == FloorLog2(v4, 10)
                 down == 2 * rem < 625
                 dev  == IF down
                         THEN ScaledMore(16 * rem * (IF v4 = 5 THEN 2 ELSE 1), ex, 5, eP)
                         ELSE ScaledMore(16 * (625 - rem), ex, 5, eP)
             IN  IF rem # 0 /\ dev
                 THEN (IF down THEN quo ELSE quo + 1)
                 ELSE (IF quo % 2 = 0 THEN quo ELSE quo + 1)

(***************************************************************************)
(* Dictionaries (Python dict) are functions from key strings to values.    *)
(***************************************************************************)
EmptyDict == <<>>

\* d1.update(d2)
DictUpdate(d1, d2) == [k \in (DOMAIN d1) \cup (DOMAIN d2) |->
                         IF k \in DOMAIN d2 THEN d2[k] ELSE d1[k]]

(***************************************************************************)
(* Observations of a season and the generation parameters.  The visits and *)
(* the parameter grid come from outside the engine.  A band name is the    *)
(* sequence of its characters.  The grid of size n is the first n entries  *)
(* of GenParList, repeated cyclically with daymax moved on by half a day   *)
(* per cycle.                                                              *)
(***************************************************************************)
Visit(mjd, band) == [mjd |-> mjd, band |-> band]

\* six visits, two in each of three bands
ObsSeason == << Visit(590000000, <<"g">>), Visit(590050000, <<"r">>),
                Visit(590100000, <<"i">>), Visit(590150000, <<"g">>),
                Visit(590200000, <<"r">>), Visit(590250000, <<"i">>) >>

\* a selection that keeps every visit
RemoveU_keepall(visits) == visits

\* "idx = [i for i, val in enumerate(obs_season[filterCol]) if val[-1] != 'u']"
\* and obs_season[idx]
RemoveU(visits) == SelectSeq(visits, LAMBDA v : v.band[Len(v.band)] # "u")

\* the seasons the observations may hold: the six visits with one u visit
\* among them, and a season of six visits of which two are in the u band
RawFull  == SubSeq(ObsSeason, 1, 3) \o << Visit(590120000, <<"u">>) >>
            \o SubSeq(ObsSeason, 4, 6)

RawShort == << Visit(590000000, <<"u">>), Visit(590050000, <<"r">>),
               Visit(590100000, <<"i">>), Visit(590150000, <<"g">>),
               Visit(590200000, <<"u">>), Visit(590250000, <<"i">>) >>

RawSeasons == {RawFull, RawShort}

GenPar(z, daymax, x1, color, e0, e1, ec, ed) ==
    [z |-> z, daymax |-> daymax, x1 |-> x1, color |-> color,
     epsilon_x0 |-> e0, epsilon_x1 |-> e1, epsilon_color |-> ec, epsilon_daymax |-> ed]

GenParList == << GenPar(3000, 590100000, 0, 0, 0, 0, 0, 0),
                 GenPar(3004, 590200000, 0, 0, 0, 0, 0, 0),
                 GenPar(3000, 595000000, 0, 0, 0, 0, 0, 0) >>

GenParAt(k) == LET base == GenParList[((k - 1) % Len(GenParList)) + 1]
                   cyc  == (k - 1) \div Len(GenParList)
               IN  [base EXCEPT !.daymax = @ + 5000 * cyc]

Grid(n) == [k \in 1..n |-> GenParAt(k)]

\* gen_params[:idb]
Slice_fromstart(s, ida, idb) == [k \in 1..idb |-> s[k]]

\* gen_params[ida:idb]
Slice(s, ida, idb) == [k \in 1..(idb - ida) |-> s[ida + k]]

(***************************************************************************)
(* SeasonBatchScheduler: batch = np.linspace(0, nlc, npp+1, dtype='int').  *)
(* The i-th boundary is the floor of the product of i and the double       *)
(* step = nlc/npp, the last one is nlc itself.  batch[i] of the code is    *)
(* linspace(nlc, npp)[i+1] here.                                           *)
(***************************************************************************)
linspace_noend(nlc, npp) == [i \in 1..(npp + 1) |-> (i - 1) * (nlc \div npp)]

\* boundaries in steps of nlc // npp, the remainder in the last shard
linspace_evenstep(nlc, npp) == [i \in 1..(npp + 1) |->
                                  IF i = npp + 1 THEN nlc ELSE (i - 1) * (nlc \div npp)]

\* floor(i * step): when i*nlc/npp is a whole number and the product comes
\* out below it, the floor is one less
linspaceAt(nlc, npp, i) ==
    LET whole == (i * nlc) \div npp
    IN  IF (i * nlc) % npp # 0 \/ whole = 0 THEN whole
        ELSE LET bo    == OddPart(npp)
                 ex    == FloorLog2(nlc, npp)
                 rem   == MulPow2Mod(nlc % bo, 52 - ex - TwoPart(npp), bo)
                 below == /\ 0 < 2 * rem
                          /\ 2 * rem < bo
                          /\ ScaledMore(i * rem * (IF IsPow2(whole) THEN 2 ELSE 1),
                                        ex + 1, bo, FloorLog2(whole, 1))
             IN  IF below THEN whole - 1 ELSE whole

linspace(nlc, npp) == [i \in 1..(npp + 1) |->
                         IF i = npp + 1 THEN nlc ELSE linspaceAt(nlc, npp, i - 1)]

(***************************************************************************)
(* IndexAssigner: writeLC's epsilon code and setIndex.                     *)
(***************************************************************************)
\* np.int(mult*1.e8*eps) for eps given in units of 1e-10 and mult one of
\* 1000, 100, 10, 1: the product of the double mult*1.e8 and the double eps,
\* truncated toward zero.  When mult*eps/100 is a whole number and the
\* product comes out nearer to zero, the result is one short of it.
Pow5_10 == 9765625

EpsTerm(mult, eps) ==
    LET mag   == IF eps < 0 THEN -eps ELSE eps
        sg    == IF eps < 0 THEN -1 ELSE 1
        whole == (mult * mag) \div 100
    IN  IF (mult * mag) % 100 # 0 \/ whole = 0 THEN sg * whole
        ELSE LET e10   == CASE mult = 1 -> 0 [] mult = 10 -> 1
                            [] mult = 100 -> 2 [] mult = 1000 -> 3
                 p5    == CASE mult = 1 -> 1 [] mult = 10 -> 5
                            [] mult = 100 -> 25 [] mult = 1000 -> 125
                 ex    == FloorLog2(mag, Pow5_10) - 10
                 rem   == MulPow2Mod(mag % Pow5_10, 42 - ex, Pow5_10)
                 below == /\ 0 < 2 * rem
                          /\ 2 * rem < Pow5_10
                          /\ ScaledMore(p5 * rem * (IF IsPow2(whole) THEN 2 ELSE 1),
                                        ex + 9 + e10, 25, FloorLog2(whole, 1))
             IN  sg * (IF below THEN whole - 1 ELSE whole)

EpsilonCode_x0only(meta) == EpsTerm(1000, meta.epsilon_x0)

EpsilonCode(meta) == EpsTerm(1000, meta.epsilon_x0) + EpsTerm(100, meta.epsilon_x1)
                     + EpsTerm(10, meta.epsilon_color) + EpsTerm(1, meta.epsilon_daymax)

setIndex_nodaymax(pix, x1, color, z, daymax, seas, epsilon) ==
    IntStr(pix) \o "_" \o FloatStr(x1) \o "_" \o FloatStr(color) \o "_" \o FloatStr(z)
    \o "_" \o IntStr(seas) \o "_" \o IntStr(epsilon)

\* '{}_{}_{}_{}_{}_{}_{}'.format(healpixID, x1, color, z, daymax, season, epsilon)
setIndex(pix, x1, color, z, daymax, seas, epsilon) ==
    IntStr(pix) \o "_" \o FloatStr(x1) \o "_" \o FloatStr(color) \o "_" \o FloatStr(z)
    \o "_" \o FloatStr(daymax) \o "_" \o IntStr(seas) \o "_" \o IntStr(epsilon)

\* the index writeLC gives to a table with metadata meta in season seas
IndexOf(meta, seas) == setIndex(meta.healpixID, meta.x1, meta.color,
                                Round3(meta.z), Round3(meta.daymax),
                                seas, EpsilonCode(meta))

(***************************************************************************)
(* SimulationBackend.  A LightCurveTable is [meta, n]: its metadata dict   *)
(* and its number of photometric rows.  Of the metadata only the keys the  *)
(* engine reads or that identify the object are carried (RA, Dec, x0,      *)
(* survey_area, pixRA, pixDec, dL and ptime are left out).                 *)
(***************************************************************************)
SNConfigId == 100      \* config['SN parameters']['Id']

\* SN_Object.cutoff: the visits whose rest-frame phase lies within
\* [min_rf_phase, max_rf_phase] = [-20, 60] days; z and times in units of 1e-4
cutoff(obs, daymax, z) ==
    SelectSeq(obs, LAMBDA o : /\ o.mjd - daymax >= -20 * (10000 + z)
                              /\ o.mjd - daymax <= 60 * (10000 + z))

\* sn_cosmo SN.metadata: dict(zip(self.names_meta, val_meta))
metadata(genpar, pix, seas, status) ==
    [SNID |-> SNConfigId, x1 |-> genpar.x1, color |-> genpar.color,
     z |-> genpar.z, daymax |-> genpar.daymax,
     epsilon_x0 |-> genpar.epsilon_x0, epsilon_x1 |-> genpar.epsilon_x1,
     epsilon_color |-> genpar.epsilon_color, epsilon_daymax |-> genpar.epsilon_daymax,
     healpixID |-> pix, season |-> seas, status |-> status]

\* "int_fluxes[int_fluxes < 0.] = 1.e-5": fluxes in units of 1e-5 Jy
FluxFloor == 1

clampFluxes(int_fluxes) ==
    [i \in DOMAIN int_fluxes |-> IF int_fluxes[i] < 0 THEN FluxFloor ELSE int_fluxes[i]]

\* obs.sort(order=self.mjdCol), of which the call then reads the times only
\* (obs[self.mjdCol]): the times of the visits in ascending order
RECURSIVE SortedMjd(_)
SortedMjd(obs) ==
    IF Len(obs) = 0 THEN <<>>
    ELSE LET m == CHOOSE i \in 1..Len(obs) :
                     \A j \in 1..Len(obs) : obs[i].mjd <= obs[j].mjd
         IN  << obs[m].mjd >> \o SortedMjd([j \in 1..(Len(obs) - 1) |->
                                              IF j < m THEN obs[j] ELSE obs[j + 1]])

\* the bands of self.gamma and self.mag_to_flux (LoadGamma('grizy', ...))
GroupBands == << <<"g">>, <<"i">>, <<"r">>, <<"y">>, <<"z">> >>

\* lcdf.groupby([self.filterCol]).apply(lambda x: self.gammaint(x)).reset_index()
\* gammaint looks its band up in self.gamma (KeyError for a band that is
\* not there) and returns its group, two columns added, under the index
\* the rows have in lcdf.  pandas before 2.0 puts such groups back in the
\* order of lcdf, and reset_index adds that index as a column.  pandas 2
\* indexes the result by the band and the old index, and reset_index raises
\* ValueError because the band is a column already.
GroupApplyRaises(pandas2, lcdf) ==
    \/ pandas2 /\ Len(lcdf) > 0
    \/ \E i \in 1..Len(lcdf) : \A b \in 1..Len(GroupBands) : lcdf[i].band # GroupBands[b]

GroupApply(lcdf) ==
    [i \in 1..Len(lcdf) |->
       [index |-> i - 1, mjd |-> lcdf[i].mjd, band |-> lcdf[i].band, flux |-> lcdf[i].flux]]

\* lcdf['band'] = 'LSST::' + lcdf['band']
LSSTBand(band) == << "L", "S", "S", "T", ":", ":" >> \o band

\* seds[i].calcFlux(bandpass=...): the flux of the spectral model at a time,
\* integrated through a band.  The model is a record [base, slope,
\* bandstep]: base at the first epoch of the band g, slope more for every
\* half day, bandstep more for every band after g.
BandRank(band) == CHOOSE b \in 1..Len(GroupBands) : GroupBands[b] = band

SedFluxOf(model, mjd, band) ==
    model.base + model.slope * ((mjd - 590000000) \div 50000)
    + model.bandstep * (BandRank(band) - 1)

\* the rows of a call that keeps the epochs of positive flux only
LcRows_positive(obs, sed) ==
    LET lcdf       == obs
        sorted     == SortedMjd(obs)
        int_fluxes == [i \in 1..Len(lcdf) |-> SedFluxOf(sed, sorted[i], lcdf[i].band)]
        withflux   == [i \in 1..Len(lcdf) |->
                         [mjd |-> lcdf[i].mjd, band |-> lcdf[i].band,
                          flux |-> int_fluxes[i]]]
        kept       == SelectSeq(withflux, LAMBDA row : row.flux > 0)
        grouped    == GroupApply(kept)
    IN  [i \in 1..Len(grouped) |->
           [index |-> grouped[i].index, time |-> grouped[i].mjd,
            band |-> LSSTBand(grouped[i].band), flux |-> grouped[i].flux]]

\* sn_cosmo SN.__call__, the rows of the table when obs, the visits left by
\* the selection, is not empty and the grouping does not raise, and sed,
\* the spectral model.
\*   lcdf = pd.DataFrame(obs[outvals])      the visits in the order given
\*   obs.sort(order=self.mjdCol)            obs itself, in place
\*   fluxes = 10.*self.SN.flux(obs[self.mjdCol], self.wave)
\*   transes[i] = self.telescope.atmosphere[lcdf.loc[i][self.filterCol]]
\*   int_fluxes[i] = seds[i].calcFlux(bandpass=transes[i])
\*   int_fluxes[int_fluxes < 0.] = 1.e-5;  lcdf['flux'] = int_fluxes
LcRows(obs, sed) ==
    LET lcdf       == obs
        sorted     == SortedMjd(obs)
        int_fluxes == clampFluxes([i \in 1..Len(lcdf) |->
                                     SedFluxOf(sed, sorted[i], lcdf[i].band)])
        withflux   == [i \in 1..Len(lcdf) |->
                         [mjd |-> lcdf[i].mjd, band |-> lcdf[i].band,
                          flux |-> int_fluxes[i]]]
        grouped    == GroupApply(withflux)
    IN  [i \in 1..Len(grouped) |->
           [index |-> grouped[i].index, time |-> grouped[i].mjd,
            band |-> LSSTBand(grouped[i].band), flux |-> grouped[i].flux]]

\* sn_cosmo SN.nosim: an empty table carrying only metadata
nosim(genpar, pix, seas, status) == [meta |-> metadata(genpar, pix, seas, status), n |-> 0]

\* a backend that returns no table when no visit is selected
SNcosmo_notable(obs, genpar, pix, seas) ==
    LET lcdf == cutoff(obs, genpar.daymax, genpar.z)
    IN  IF Len(lcdf) = 0
        THEN << >>
        ELSE << [meta |-> metadata(genpar, pix, seas, 1), n |-> Len(lcdf)] >>

\* sn_cosmo SN.__call__ begins with "season = np.unique(obs['season'])[0]",
\* which raises IndexError when obs has no row
SNcosmoRaises(obs) == Len(obs) = 0

\* sn_cosmo SN.__call__ with visits left by the selection: the grouping
\* of the rows raises
SNcosmoGroupRaises(pandas2, obs, genpar) ==
    GroupApplyRaises(pandas2, cutoff(obs, genpar.daymax, genpar.z))

\* sn_cosmo SN.__call__ on observations that have a row: one table per call
SNcosmo(obs, genpar, pix, seas) ==
    LET lcdf == cutoff(obs, genpar.daymax, genpar.z)
    IN  IF Len(lcdf) = 0
        THEN << nosim(genpar, pix, seas, -1) >>
        ELSE << [meta |-> metadata(genpar, pix, seas, 1), n |-> Len(lcdf)] >>

\* sn_fast SN.__init__/__call__: self.premeta, shared by the tables of a call
premeta(shard, pix) ==
    [x1 |-> shard[1].x1, color |-> shard[1].color, x0 |-> -1,
     epsilon_x0 |-> shard[1].epsilon_x0, epsilon_x1 |-> shard[1].epsilon_x1,
     epsilon_color |-> shard[1].epsilon_color,
     epsilon_daymax |-> shard[1].epsilon_daymax, healpixID |-> pix]

\* rows LCfast returns for the pair (z, daymax): the selected visits of
\* every parameter of the shard with that pair
FastRows(obs, shard, key) ==
    LET F[k \in 0..Len(shard)] ==
          IF k = 0 THEN 0
          ELSE F[k - 1] + (IF <<shard[k].z, shard[k].daymax>> = key
                           THEN Len(cutoff(obs, shard[k].daymax, shard[k].z)) ELSE 0)
    IN  F[Len(shard)]

KeyLeq(a, b) == a[1] < b[1] \/ (a[1] = b[1] /\ a[2] <= b[2])

RECURSIVE SortKeys(_)
SortKeys(S) == IF S = {} THEN <<>>
               ELSE LET m == CHOOSE a \in S : \A b \in S : KeyLeq(a, b)
                    IN  <<m>> \o SortKeys(S \ {m})

\* sn_fast SN.transform: one table per (z, daymax) group of the result rows,
\* in the sorted order of groupby
transform(obs, shard, pix) ==
    LET keys == { <<shard[k].z, shard[k].daymax>> : k \in 1..Len(shard) }
        live == { key \in keys : FastRows(obs, shard, key) > 0 }
        ord  == SortKeys(live)
    IN  [i \in 1..Len(ord) |->
           [meta |-> DictUpdate([z |-> ord[i][1], daymax |-> ord[i][2]],
                                premeta(shard, pix)),
            n |-> FastRows(obs, shard, ord[i])]]

\* a grouping by z alone
transformRows_byz(tab, pm) ==
    LET names == { <<tab[j].z>> : j \in 1..Len(tab) }
        ord   == SortKeys({ <<n[1], 0>> : n \in names })
    IN  [i \in 1..Len(ord) |->
           [meta |-> DictUpdate([z |-> ord[i][1],
                                 daymax |-> (CHOOSE j \in 1..Len(tab) :
                                                tab[j].z = ord[i][1])],
                                pm),
            rows |-> SelectSeq(tab, LAMBDA r : r.z = ord[i][1])]]

\* sn_fast SN.transform on the rows of tab: "groups = tab.groupby(['z',
\* 'daymax'])", then for each (name, grp), in the sorted order of the names,
\* a table of the rows of grp with meta = dict(zip(['z', 'daymax'], name))
\* updated with self.premeta
transformRows(tab, pm) ==
    LET names == { <<tab[j].z, tab[j].daymax>> : j \in 1..Len(tab) }
        ord   == SortKeys(names)
    IN  [i \in 1..Len(ord) |->
           [meta |-> DictUpdate([z |-> ord[i][1], daymax |-> ord[i][2]], pm),
            rows |-> SelectSeq(tab, LAMBDA r : <<r.z, r.daymax>> = ord[i])]]

\* sn_fast SN.__init__: np.unique(...).item() of x1, of color and of each
\* epsilon raises unless the shard holds exactly one value of it
Unique(shard, field) == Cardinality({shard[k][field] : k \in 1..Len(shard)}) = 1

SNfastRaises(shard) ==
    \E field \in {"x1", "color", "epsilon_x0", "epsilon_x1", "epsilon_color",
                   "epsilon_daymax"} : ~Unique(shard, field)

\* sn_fast SN.__call__: np.unique(obs['pixRA']).item() raises ValueError on
\* observations without any row
SNfastCallRaises(obs) == Len(obs) = 0

\* sn_fast SN.__call__
SNfast(obs, shard, pix) == transform(obs, shard, pix)

(***************************************************************************)
(* IncrementalWriter: the parts of writeLC that compute values.            *)
(***************************************************************************)
\* metadict = dict(zip(metanames, metavals)); metadict.update(lc.meta)
MetaDict(snid, lc, seas) ==
    DictUpdate([SNID |-> snid, index_hdf5 |-> IndexOf(lc.meta, seas),
                season |-> seas, n_lc_points |-> lc.n],
               lc.meta)

\* an accumulator whose 'season' list takes the first record only
ExtendMeta_skipseason(meta_lc, metadict) ==
    IF DOMAIN meta_lc = {}
    THEN [k \in DOMAIN metadict |-> << metadict[k] >>]
    ELSE [k \in DOMAIN meta_lc |->
            IF k \in DOMAIN metadict /\ k # "season"
            THEN Append(meta_lc[k], metadict[k]) ELSE meta_lc[k]]

\* "if not meta_lc: meta_lc[key] = [v] else: meta_lc[key].extend([v])"
ExtendMeta(meta_lc, metadict) ==
    IF DOMAIN meta_lc = {}
    THEN [k \in DOMAIN metadict |-> << metadict[k] >>]
    ELSE [k \in DOMAIN meta_lc |->
            IF k \in DOMAIN metadict THEN Append(meta_lc[k], metadict[k]) ELSE meta_lc[k]]

\* extending raises KeyError when the accumulator lacks a key of metadict
ExtendRaises(meta_lc, metadict) ==
    DOMAIN meta_lc # {} /\ ~((DOMAIN metadict) \subseteq (DOMAIN meta_lc))

\* 'lc_{}'.format(index_hdf5)
LcPath(lc, seas) == "lc_" \o IndexOf(lc.meta, seas)

(***************************************************************************)
(* The engine: state after SNSimulation.__init__.                          *)
(***************************************************************************)
Tags   == {1, 2}        \* values of the multiprocessing tag iproc
Pixels == {11}          \* healpixID of the observations handed to run()

CosmoName == "sn_simulator.sn_cosmo"
FastName  == "sn_simulator.sn_fast"

\* 'sn_fast' in self.simu_config['name']
IsFast == cfg.name = FastName

\* a worker count that follows the configuration for both backends
Npp_configured == cfg.nprocs

\* npp of simuSeason
Npp == IF IsFast THEN 1 ELSE cfg.nprocs

RECURSIVE Pow10(_)
Pow10(n) == IF n = 0 THEN 1 ELSE 10 * Pow10(n - 1)

SetKey(d, k, v) == [x \in (DOMAIN d) \cup {k} |-> IF x = k THEN v ELSE d[x]]

NoProc == [pc |-> "none", gen |-> <<>>, k |-> 0, list_lc |-> <<>>, d |-> 0,
           meta_lc |-> EmptyDict, SNID |-> <<>>, made |-> <<>>, wrote |-> <<>>]

\* simuLCs builds the simulator with module.SN(sn_object, self.simu_config,
\* self.reference_lc, self.gamma, self.mag_to_flux, self.dustcorr,
\* error_model=self.error_model).  InitSrc is the SN.__init__ of
\* src/sn_simulator, which takes (param, simu_param, reference_lc, gamma,
\* mag_to_flux): the call raises TypeError.  InitFull is an SN.__init__ that
\* takes the arguments of the call.
InitSrc  == "src"
InitFull == "full"

SNInitRaises == cfg.sn_init = InitSrc

\* cfg.pandas2: the pandas of the installation is of version 2.  It is
\* read by a call of the Physics backend that gets past the constructor,
\* so it is varied for those configurations only.
Builds(configs) ==
    { c \in configs : c.pandas2 => (c.name = CosmoName /\ c.sn_init = InitFull) }

Configs(nprocsSet) ==
    Builds([nprocs : nprocsSet, name : {CosmoName, FastName}, save_status : {TRUE},
            sn_init : {InitSrc, InitFull}, pandas2 : BOOLEAN])

NoFiles == [lc |-> {}, simu |-> {}]

\* configs: the configurations, nseasons: how many seasons the observations
\* hold in all, olds: what the output paths of a tag may hold beforehand
InitEngine(configs, nseasons, olds) ==
    /\ cfg \in configs
    /\ pc = "idle"
    /\ iproc = 0
    /\ healpixID = 0
    /\ season = 0
    /\ seasons = <<>>
    /\ obs_season = <<>>
    /\ budget = nseasons
    /\ nprocdict = {}
    /\ SNID = EmptyDict
    /\ sn_meta = EmptyDict
    /\ meta_order = <<>>
    /\ \E old \in olds : /\ lcFile = [t \in Tags |-> old.lc]
                         /\ simuFile = [t \in Tags |-> old.simu]
    /\ gen_params = <<>>
    /\ batch = <<>>
    /\ nstart = 0
    /\ result_queue = <<>>
    /\ resultdict = <<>>
    /\ shared = -1
    /\ nrecv = 0
    /\ mj = 0
    /\ proc = <<>>

Init == InitEngine(Configs(1..MaxProcs), MaxSeasons, {NoFiles}) /\ arg = <<>> /\ res = <<>>

seasonVars == <<gen_params, batch, nstart, result_queue, resultdict, shared, nrecv, mj, proc>>
storeVars  == <<nprocdict, SNID, sn_meta, meta_order, lcFile, simuFile>>

\* d[k] = v on a dict that keeps the order of insertion of its keys
AddKey(order, k) == IF \E n \in 1..Len(order) : order[n] = k THEN order
                    ELSE Append(order, k)

\* the values "seasons" of run() may take: np.unique(obs[self.seasonCol]) or
\* the list of the configuration
SeasonLists == { <<>>, <<1>>, <<1, 2>> }

(***************************************************************************)
(* run(): tag bookkeeping, prepareSave, the loop over the seasons,         *)
(* save_metadata and the reset of the store.                               *)
(***************************************************************************)
\* prepareSave: check_del of both artifacts, SNID seed, empty store
prepareSave_seed1(tag) ==
    /\ lcFile' = [lcFile EXCEPT ![tag] = {}]
    /\ simuFile' = [simuFile EXCEPT ![tag] = {}]
    /\ SNID' = SetKey(SNID, tag, 1)
    /\ sn_meta' = SetKey(sn_meta, tag, EmptyDict)
    /\ meta_order' = AddKey(meta_order, tag)

\* a preparation that leaves the artifacts as they are
prepareSave_nodel(tag) ==
    /\ UNCHANGED <<lcFile, simuFile>>
    /\ SNID' = SetKey(SNID, tag, Pow10(tag))
    /\ sn_meta' = SetKey(sn_meta, tag, EmptyDict)
    /\ meta_order' = AddKey(meta_order, tag)

\* check_del of the two output paths of the tag, then the seed of the SNID
\* counter and the empty store
prepareSave(tag) ==
    /\ lcFile' = [lcFile EXCEPT ![tag] = {}]
    /\ simuFile' = [simuFile EXCEPT ![tag] = {}]
    /\ SNID' = SetKey(SNID, tag, Pow10(tag))
    /\ sn_meta' = SetKey(sn_meta, tag, EmptyDict)
    /\ meta_order' = AddKey(meta_order, tag)

\* a run() that prepares the outputs of its tag at every call
RunBegin_always(tag, pix, slist) ==
    /\ pc = "idle"
    /\ budget > 0
    /\ Len(slist) <= budget
    /\ iproc' = tag
    /\ healpixID' = pix
    /\ season' = 0
    /\ seasons' = slist
    /\ nprocdict' = nprocdict \cup {tag}
    /\ IF cfg.save_status
       THEN prepareSave(tag)
       ELSE UNCHANGED <<SNID, sn_meta, meta_order, lcFile, simuFile>>
    /\ budget' = IF slist = <<>> THEN budget - 1 ELSE budget
    /\ pc' = "seasons"
    /\ UNCHANGED <<cfg, obs_season, arg, res>>
    /\ UNCHANGED seasonVars

\* run(), up to the loop over the seasons slist
RunBegin(tag, pix, slist) ==
    /\ pc = "idle"
    /\ budget > 0
    /\ Len(slist) <= budget
    /\ iproc' = tag
    /\ healpixID' = pix
    /\ season' = 0
    /\ seasons' = slist
    /\ IF tag \notin nprocdict
       THEN /\ nprocdict' = nprocdict \cup {tag}
            /\ IF cfg.save_status
               THEN prepareSave(tag)
               ELSE UNCHANGED <<SNID, sn_meta, meta_order, lcFile, simuFile>>
       ELSE UNCHANGED storeVars
    /\ budget' = IF slist = <<>> THEN budget - 1 ELSE budget
    /\ pc' = "seasons"
    /\ UNCHANGED <<cfg, obs_season, arg, res>>
    /\ UNCHANGED seasonVars

\* "for seas in seasons", raw being the visits of the season seas: with
\* fewer than 5 visits outside the u band nothing is done
SeasonSkip(raw) ==
    /\ pc = "seasons"
    /\ seasons # <<>>
    /\ ~(Len(RemoveU(raw)) >= 5)
    /\ season' = Head(seasons)
    /\ seasons' = Tail(seasons)
    /\ obs_season' = raw
    /\ budget' = budget - 1
    /\ UNCHANGED <<cfg, pc, iproc, healpixID, arg, res>>
    /\ UNCHANGED storeVars
    /\ UNCHANGED seasonVars

\* simuSeason when the grid generator returns None: "return" at once
SimuSeasonNone(raw) ==
    /\ pc = "seasons"
    /\ seasons # <<>>
    /\ Len(RemoveU(raw)) >= 5
    /\ season' = Head(seasons)
    /\ seasons' = Tail(seasons)
    /\ obs_season' = raw
    /\ budget' = budget - 1
    /\ gen_params' = <<>>
    /\ pc' = "nogrid"
    /\ UNCHANGED <<cfg, iproc, healpixID, arg, res>>
    /\ UNCHANGED storeVars
    /\ UNCHANGED <<batch, nstart, result_queue, resultdict, shared, nrecv, mj, proc>>

\* simuSeason up to the creation of the queue, for a grid of nlc parameters
SimuSeasonBegin(raw, nlc) ==
    /\ pc = "seasons"
    /\ seasons # <<>>
    /\ Len(RemoveU(raw)) >= 5
    /\ season' = Head(seasons)
    /\ seasons' = Tail(seasons)
    /\ obs_season' = raw
    /\ budget' = budget - 1
    /\ gen_params' = Grid(nlc)
    /\ batch' = linspace(nlc, Npp)
    /\ result_queue' = <<>>
    /\ nstart' = 0
    /\ nrecv' = 0
    /\ mj' = 0
    /\ resultdict' = <<>>
    /\ shared' = -1
    /\ proc' = [w \in 0..(Npp - 1) |-> NoProc]
    /\ pc' = "start"
    /\ UNCHANGED <<cfg, iproc, healpixID, arg, res>>
    /\ UNCHANGED storeVars

\* save_metadata: the non-empty stores, each to the summary artifact of its tag
SummaryName(isav) == "summary_" \o IntStr(isav)

\* "for key, vals in self.sn_meta.items(): if vals: Table(vals).write(
\* self.simu_out[key], 'summary_{}'.format(isav), append=True, ...)": the
\* stores in the order of their keys, until a write raises (no output path
\* for the key, or the name is already in the artifact)
RECURSIVE SaveMeta(_, _, _)
SaveMeta(keys, files, isav) ==
    IF keys = <<>> THEN [files |-> files, raised |-> FALSE]
    ELSE LET key == Head(keys)
         IN  IF DOMAIN sn_meta[key] = {} THEN SaveMeta(Tail(keys), files, isav)
             ELSE IF \/ key \notin DOMAIN SNID
                     \/ \E e \in files[key] : e.name = SummaryName(isav)
                  THEN [files |-> files, raised |-> TRUE]
                  ELSE SaveMeta(Tail(keys),
                                [files EXCEPT ![key] = @ \cup {[name |-> SummaryName(isav),
                                                                table |-> sn_meta[key]]}],
                                isav)

save_metadata_raises(isav) == SaveMeta(meta_order, simuFile, isav).raised

save_metadata(isav) == simuFile' = SaveMeta(meta_order, simuFile, isav).files

\* an end of run() that keeps the store
RunEnd_keepstore ==
    /\ pc = "seasons"
    /\ seasons = <<>>
    /\ save_metadata(healpixID)
    /\ IF save_metadata_raises(healpixID)
       THEN /\ pc' = "raised"
            /\ UNCHANGED obs_season
       ELSE /\ obs_season' = <<>>
            /\ pc' = "idle"
    /\ UNCHANGED <<cfg, iproc, healpixID, season, seasons, budget, nprocdict, SNID,
                   lcFile, sn_meta, meta_order, arg, res>>
    /\ UNCHANGED seasonVars

\* the end of run(), after the last season: save_metadata, then
\* self.sn_meta[iproc] = {}
RunEnd ==
    /\ pc = "seasons"
    /\ seasons = <<>>
    /\ save_metadata(healpixID)
    /\ IF save_metadata_raises(healpixID)
       THEN /\ pc' = "raised"
            /\ UNCHANGED <<sn_meta, meta_order, obs_season>>
       ELSE /\ sn_meta' = SetKey(sn_meta, iproc, EmptyDict)
            /\ meta_order' = AddKey(meta_order, iproc)
            /\ obs_season' = <<>>
            /\ pc' = "idle"
    /\ UNCHANGED <<cfg, iproc, healpixID, season, seasons, budget, nprocdict, SNID,
                   lcFile, arg, res>>
    /\ UNCHANGED seasonVars

(***************************************************************************)
(* simuSeason: fan-out, fan-in, merge.                                     *)
(***************************************************************************)
parentVars == <<cfg, iproc, healpixID, season, seasons, obs_season, budget, arg, res>>

\* p = multiprocessing.Process(target=self.simuLoop, args=(obs, season,
\* gen_params[ida:idb], iproc, i, result_queue)); p.start()
\* The child gets a copy of the engine: self.SNID as it is in the parent now.
StartProcess ==
    /\ pc = "start"
    /\ nstart < Npp
    /\ LET i   == nstart
           ida == batch[i + 1]
           idb == batch[i + 2]
       IN  proc' = [proc EXCEPT ![i] =
                       [NoProc EXCEPT !.pc = IF IsFast THEN "fast" ELSE "loop",
                                      !.gen = Slice(gen_params, ida, idb),
                                      !.SNID = SNID]]
    /\ nstart' = nstart + 1
    /\ pc' = IF nstart + 1 = Npp THEN "recv" ELSE "start"
    /\ UNCHANGED parentVars
    /\ UNCHANGED storeVars
    /\ UNCHANGED <<gen_params, batch, result_queue, resultdict, shared, nrecv, mj>>

\* resultdict.update({j: meta}) on a dict that keeps its insertion order
HasKey(od, j) == \E n \in 1..Len(od) : od[n].key = j

GetKey(od, j) == od[CHOOSE n \in 1..Len(od) : od[n].key = j].val

OrderedUpdate(od, msg) ==
    IF HasKey(od, msg.key)
    THEN [n \in 1..Len(od) |-> IF od[n].key = msg.key THEN msg ELSE od[n]]
    ELSE Append(od, msg)

\* a receive that files the result under the order of arrival
Receive_byArrival ==
    /\ pc = "recv"
    /\ nrecv < Npp
    /\ result_queue # <<>>
    /\ resultdict' = OrderedUpdate(resultdict, [key |-> nrecv, val |-> Head(result_queue).val])
    /\ result_queue' = Tail(result_queue)
    /\ nrecv' = nrecv + 1
    /\ pc' = IF nrecv + 1 = Npp THEN "join" ELSE "recv"
    /\ UNCHANGED parentVars
    /\ UNCHANGED storeVars
    /\ UNCHANGED <<gen_params, batch, nstart, mj, proc, shared>>

\* a receive that gives up when a worker has died
Receive_giveup ==
    /\ pc = "recv"
    /\ nrecv < Npp
    /\ \/ result_queue # <<>>
       \/ \E w \in DOMAIN proc : proc[w].pc = "crashed"
    /\ IF result_queue # <<>>
       THEN /\ resultdict' = OrderedUpdate(resultdict, Head(result_queue))
            /\ result_queue' = Tail(result_queue)
       ELSE UNCHANGED <<resultdict, result_queue>>
    /\ nrecv' = nrecv + 1
    /\ pc' = IF nrecv + 1 = Npp THEN "join" ELSE "recv"
    /\ UNCHANGED parentVars
    /\ UNCHANGED storeVars
    /\ UNCHANGED <<gen_params, batch, nstart, mj, proc, shared>>

\* resultdict.update(result_queue.get()): blocks while the queue is empty
Receive ==
    /\ pc = "recv"
    /\ nrecv < Npp
    /\ result_queue # <<>>
    /\ resultdict' = OrderedUpdate(resultdict, Head(result_queue))
    /\ result_queue' = Tail(result_queue)
    /\ nrecv' = nrecv + 1
    /\ pc' = IF nrecv + 1 = Npp THEN "join" ELSE "recv"
    /\ UNCHANGED parentVars
    /\ UNCHANGED storeVars
    /\ UNCHANGED <<gen_params, batch, nstart, mj, proc, shared>>

Terminated(w) == proc[w].pc \in {"done", "crashed"}

\* a parent that goes on without waiting for its children
Join_nowait ==
    /\ pc = "join"
    /\ pc' = "merge"
    /\ mj' = 0
    /\ UNCHANGED parentVars
    /\ UNCHANGED storeVars
    /\ UNCHANGED <<gen_params, batch, nstart, result_queue, resultdict, shared, nrecv, proc>>

\* for p in multiprocessing.active_children(): p.join()
Join ==
    /\ pc = "join"
    /\ \A w \in DOMAIN proc : Terminated(w)
    /\ pc' = "merge"
    /\ mj' = 0
    /\ UNCHANGED parentVars
    /\ UNCHANGED storeVars
    /\ UNCHANGED <<gen_params, batch, nstart, result_queue, resultdict, shared, nrecv, proc>>

\* a merge that puts the result of the worker in the place of the store
MergeInto_replace(store, metadict) == metadict

\* one round of "for j in range(npp)": the store takes the worker's dict when
\* it is empty, else every list of the worker is appended to the store's
MergeRaises(store, metadict) ==
    DOMAIN store # {} /\ ~((DOMAIN metadict) \subseteq (DOMAIN store))

MergeInto(store, metadict) ==
    IF DOMAIN store = {} THEN metadict
    ELSE [key \in DOMAIN store |->
            IF key \in DOMAIN metadict THEN store[key] \o metadict[key] ELSE store[key]]

\* metadict.keys(): the keys in the order of their insertion.  writeLC puts
\* metanames first and then, with update(lc.meta), the keys of the table's
\* metadata that are not among them: self.names_meta for a table of the
\* Physics backend (it alone has 'status'), and z, daymax and the keys of
\* premeta for a table of the FastTable backend.
CosmoKeyOrder == << "SNID", "index_hdf5", "season", "n_lc_points", "epsilon_x0", "x1",
                    "epsilon_x1", "color", "epsilon_color", "daymax", "epsilon_daymax",
                    "z", "healpixID", "status" >>

FastKeyOrder == << "SNID", "index_hdf5", "season", "n_lc_points", "z", "daymax", "x1",
                   "color", "x0", "epsilon_x0", "epsilon_x1", "epsilon_color",
                   "epsilon_daymax", "healpixID" >>

KeysOf(metadict) ==
    SelectSeq(IF "status" \in DOMAIN metadict THEN CosmoKeyOrder ELSE FastKeyOrder,
              LAMBDA key : key \in DOMAIN metadict)

\* the store when the round raises KeyError: the lists of the keys that come
\* before the first key the store lacks are extended
MergePartial(store, metadict) ==
    LET ks   == KeysOf(metadict)
        miss == CHOOSE m \in 1..Len(ks) :
                   /\ ks[m] \notin DOMAIN store
                   /\ \A n \in 1..(m - 1) : ks[n] \in DOMAIN store
    IN  [key \in DOMAIN store |->
            IF \E n \in 1..(miss - 1) : ks[n] = key
            THEN store[key] \o metadict[key] ELSE store[key]]

\* "self.sn_meta[iproc] = metadict" binds the store to the dict of the
\* worker, so the "+=" of a later round, which extends the lists of the
\* store in place, extends the lists of that entry of resultdict with them
SharedUpdate(od, j, store) ==
    IF j = -1 THEN od ELSE OrderedUpdate(od, [key |-> j, val |-> store])

Merge ==
    /\ pc = "merge"
    /\ mj < Npp
    /\ IF \/ ~HasKey(resultdict, mj)
          \/ iproc \notin DOMAIN sn_meta
       THEN /\ pc' = "raised"
            /\ UNCHANGED <<sn_meta, mj, resultdict, shared>>
       ELSE IF MergeRaises(sn_meta[iproc], GetKey(resultdict, mj))
       THEN /\ pc' = "raised"
            /\ sn_meta' = [sn_meta EXCEPT ![iproc] =
                              MergePartial(@, GetKey(resultdict, mj))]
            /\ resultdict' = SharedUpdate(resultdict, shared, sn_meta'[iproc])
            /\ UNCHANGED <<mj, shared>>
       ELSE /\ sn_meta' = [sn_meta EXCEPT ![iproc] = MergeInto(@, GetKey(resultdict, mj))]
            /\ IF DOMAIN sn_meta[iproc] = {}
               THEN shared' = mj /\ UNCHANGED resultdict
               ELSE /\ resultdict' = SharedUpdate(resultdict, shared, sn_meta'[iproc])
                    /\ UNCHANGED shared
            /\ mj' = mj + 1
            /\ pc' = IF mj + 1 = Npp THEN "return" ELSE "merge"
    /\ UNCHANGED parentVars
    /\ UNCHANGED <<nprocdict, SNID, meta_order, lcFile, simuFile>>
    /\ UNCHANGED <<gen_params, batch, nstart, result_queue, nrecv, proc>>

\* simuSeason returns, without a grid or after the last round of the merge:
\* its locals and the ended child processes are gone
SeasonReturn ==
    /\ pc \in {"return", "nogrid"}
    /\ gen_params' = <<>>
    /\ batch' = <<>>
    /\ nstart' = 0
    /\ result_queue' = <<>>
    /\ resultdict' = <<>>
    /\ shared' = -1
    /\ nrecv' = 0
    /\ mj' = 0
    /\ proc' = <<>>
    /\ pc' = "seasons"
    /\ UNCHANGED parentVars
    /\ UNCHANGED storeVars

(***************************************************************************)
(* simuLoop in worker process w, with dump and writeLC.                    *)
(***************************************************************************)
FlushSize == 20      \* "if len(list_lc) >= 20"

workerFrame == <<cfg, pc, iproc, healpixID, season, seasons, obs_season, budget,
                 nprocdict, SNID, sn_meta, meta_order, simuFile, gen_params, batch,
                 nstart, resultdict, shared, nrecv, mj, arg, res>>

\* simuLCs in worker w raises: the constructor does not take the call, or
\* the backend raises on its input
SimulateRaises(w) ==
    \/ /\ proc[w].pc = "loop"
       /\ proc[w].k < Len(proc[w].gen)
       /\ \/ SNInitRaises
          \/ SNcosmoRaises(RemoveU(obs_season))
          \/ SNcosmoGroupRaises(cfg.pandas2, RemoveU(obs_season),
                                proc[w].gen[proc[w].k + 1])
    \/ /\ proc[w].pc = "fast"
       /\ \/ SNInitRaises
          \/ SNfastRaises(proc[w].gen)
          \/ SNfastCallRaises(RemoveU(obs_season))

\* a loop that flushes only above 20 tables
Simulate_above(w) ==
    /\ w \in DOMAIN proc
    /\ proc[w].pc = "loop"
    /\ proc[w].k < Len(proc[w].gen)
    /\ ~SimulateRaises(w)
    /\ LET p   == proc[w]
           lc  == SNcosmo(RemoveU(obs_season), p.gen[p.k + 1], healpixID, season)
           buf == IF Len(lc) > 0 THEN p.list_lc \o lc ELSE p.list_lc
       IN  proc' = [proc EXCEPT ![w] =
                       [p EXCEPT !.k = p.k + 1,
                                 !.list_lc = buf,
                                 !.made = p.made \o lc,
                                 !.d = IF Len(buf) > FlushSize THEN 1 ELSE 0,
                                 !.pc = IF Len(buf) > FlushSize THEN "dump" ELSE "loop"]]
    /\ UNCHANGED workerFrame
    /\ UNCHANGED <<lcFile, result_queue>>

\* a loop that buffers only the tables that have rows
Simulate_skipempty(w) ==
    /\ w \in DOMAIN proc
    /\ proc[w].pc = "loop"
    /\ proc[w].k < Len(proc[w].gen)
    /\ ~SimulateRaises(w)
    /\ LET p   == proc[w]
           lc  == SNcosmo(RemoveU(obs_season), p.gen[p.k + 1], healpixID, season)
           buf == IF Len(lc) > 0 /\ lc[1].n > 0 THEN p.list_lc \o lc ELSE p.list_lc
       IN  proc' = [proc EXCEPT ![w] =
                       [p EXCEPT !.k = p.k + 1,
                                 !.list_lc = buf,
                                 !.made = p.made \o lc,
                                 !.d = IF Len(buf) >= FlushSize THEN 1 ELSE 0,
                                 !.pc = IF Len(buf) >= FlushSize THEN "dump" ELSE "loop"]]
    /\ UNCHANGED workerFrame
    /\ UNCHANGED <<lcFile, result_queue>>

\* Physics backend: one round of "for genpar in gen_params", up to the call
\* of dump
Simulate(w) ==
    /\ w \in DOMAIN proc
    /\ proc[w].pc = "loop"
    /\ proc[w].k < Len(proc[w].gen)
    /\ ~SimulateRaises(w)
    /\ LET p   == proc[w]
           lc  == SNcosmo(RemoveU(obs_season), p.gen[p.k + 1], healpixID, season)
           buf == IF Len(lc) > 0 THEN p.list_lc \o lc ELSE p.list_lc
       IN  proc' = [proc EXCEPT ![w] =
                       [p EXCEPT !.k = p.k + 1,
                                 !.list_lc = buf,
                                 !.made = p.made \o lc,
                                 !.d = IF Len(buf) >= FlushSize THEN 1 ELSE 0,
                                 !.pc = IF Len(buf) >= FlushSize THEN "dump" ELSE "loop"]]
    /\ UNCHANGED workerFrame
    /\ UNCHANGED <<lcFile, result_queue>>

\* FastTable backend: list_lc = self.simuLCs(obs, season, gen_params); a
\* worker whose backend raises can only end
SimulateFast(w) ==
    /\ w \in DOMAIN proc
    /\ proc[w].pc = "fast"
    /\ ~SimulateRaises(w)
    /\ LET p  == proc[w]
           lc == SNfast(RemoveU(obs_season), p.gen, healpixID)
       IN  proc' = [proc EXCEPT ![w] =
                       [p EXCEPT !.k = Len(p.gen),
                                 !.list_lc = lc,
                                 !.made = lc,
                                 !.d = IF Len(lc) > 0 THEN 1 ELSE 0,
                                 !.pc = IF Len(lc) > 0 THEN "lastdump" ELSE "put"]]
    /\ UNCHANGED workerFrame
    /\ UNCHANGED <<lcFile, result_queue>>

\* a final dump that skips the first table of the list
LoopExit_skipfirst(w) ==
    /\ w \in DOMAIN proc
    /\ proc[w].pc = "loop"
    /\ proc[w].k = Len(proc[w].gen)
    /\ proc' = [proc EXCEPT ![w].d = IF Len(proc[w].list_lc) > 1 THEN 2 ELSE 0,
                            ![w].pc = IF Len(proc[w].list_lc) > 1 THEN "lastdump" ELSE "put"]
    /\ UNCHANGED workerFrame
    /\ UNCHANGED <<lcFile, result_queue>>

\* the end of the for loop: "if len(list_lc) > 0: self.dump(...)"
LoopExit(w) ==
    /\ w \in DOMAIN proc
    /\ proc[w].pc = "loop"
    /\ proc[w].k = Len(proc[w].gen)
    /\ proc' = [proc EXCEPT ![w].d = IF Len(proc[w].list_lc) > 0 THEN 1 ELSE 0,
                            ![w].pc = IF Len(proc[w].list_lc) > 0 THEN "lastdump" ELSE "put"]
    /\ UNCHANGED workerFrame
    /\ UNCHANGED <<lcFile, result_queue>>

\* writeLC cannot complete: no counter or artifact for the tag, the path is
\* already in the artifact, or the accumulator lacks a key
WriteRaises(w) ==
    LET p  == proc[w]
        lc == p.list_lc[p.d]
    IN  \/ iproc \notin DOMAIN p.SNID
        \/ LcPath(lc, season) \in lcFile[iproc]
        \/ ExtendRaises(p.meta_lc, MetaDict(p.SNID[iproc] + 1, lc, season))

\* a write that counts on the counter of the parent process
WriteLC_parentcounter(w) ==
    /\ w \in DOMAIN proc
    /\ proc[w].pc \in {"dump", "lastdump"}
    /\ ~WriteRaises(w)
    /\ LET p    == proc[w]
           lc   == p.list_lc[p.d]
           snid == p.SNID[iproc] + 1
           last == p.d = Len(p.list_lc)
       IN  /\ lcFile' = [lcFile EXCEPT ![iproc] = @ \cup {LcPath(lc, season)}]
           /\ SNID' = [SNID EXCEPT ![iproc] = @ + 1]
           /\ proc' = [proc EXCEPT ![w] =
                 [p EXCEPT !.SNID = [p.SNID EXCEPT ![iproc] = snid],
                           !.meta_lc = ExtendMeta(p.meta_lc, MetaDict(snid, lc, season)),
                           !.wrote = Append(p.wrote, [lc |-> lc, SNID |-> snid]),
                           !.d = IF last THEN 0 ELSE p.d + 1,
                           !.list_lc = IF last /\ p.pc = "dump" THEN <<>> ELSE p.list_lc,
                           !.pc = IF ~last THEN p.pc
                                  ELSE IF p.pc = "dump" THEN "loop" ELSE "put"]]
    /\ UNCHANGED <<cfg, pc, iproc, healpixID, season, seasons, obs_season, budget,
                   nprocdict, sn_meta, meta_order, simuFile, gen_params, batch, nstart,
                   resultdict, shared, nrecv, mj, arg, res, result_queue>>

\* a write that waits while another worker is inside dump
WriteLC_locked(w) ==
    /\ w \in DOMAIN proc
    /\ proc[w].pc \in {"dump", "lastdump"}
    /\ \A v \in DOMAIN proc \ {w} : proc[v].pc \notin {"dump", "lastdump"}
    /\ ~WriteRaises(w)
    /\ LET p    == proc[w]
           lc   == p.list_lc[p.d]
           snid == p.SNID[iproc] + 1
           last == p.d = Len(p.list_lc)
       IN  /\ lcFile' = [lcFile EXCEPT ![iproc] = @ \cup {LcPath(lc, season)}]
           /\ proc' = [proc EXCEPT ![w] =
                 [p EXCEPT !.SNID = [p.SNID EXCEPT ![iproc] = snid],
                           !.meta_lc = ExtendMeta(p.meta_lc, MetaDict(snid, lc, season)),
                           !.wrote = Append(p.wrote, [lc |-> lc, SNID |-> snid]),
                           !.d = IF last THEN 0 ELSE p.d + 1,
                           !.list_lc = IF last /\ p.pc = "dump" THEN <<>> ELSE p.list_lc,
                           !.pc = IF ~last THEN p.pc
                                  ELSE IF p.pc = "dump" THEN "loop" ELSE "put"]]
    /\ UNCHANGED workerFrame
    /\ UNCHANGED result_queue

\* one round of dump's "for lc in list_lc": self.SNID[j] += 1, then writeLC.
\* After the last table dump returns: in the loop the buffer is emptied
\* ("list_lc = []"), after the loop the worker goes on to post its result.
WriteLC(w) ==
    /\ w \in DOMAIN proc
    /\ proc[w].pc \in {"dump", "lastdump"}
    /\ ~WriteRaises(w)
    /\ LET p    == proc[w]
           lc   == p.list_lc[p.d]
           snid == p.SNID[iproc] + 1
           last == p.d = Len(p.list_lc)
       IN  /\ lcFile' = [lcFile EXCEPT ![iproc] = @ \cup {LcPath(lc, season)}]
           /\ proc' = [proc EXCEPT ![w] =
                 [p EXCEPT !.SNID = [p.SNID EXCEPT ![iproc] = snid],
                           !.meta_lc = ExtendMeta(p.meta_lc, MetaDict(snid, lc, season)),
                           !.wrote = Append(p.wrote, [lc |-> lc, SNID |-> snid]),
                           !.d = IF last THEN 0 ELSE p.d + 1,
                           !.list_lc = IF last /\ p.pc = "dump" THEN <<>> ELSE p.list_lc,
                           !.pc = IF ~last THEN p.pc
                                  ELSE IF p.pc = "dump" THEN "loop" ELSE "put"]]
    /\ UNCHANGED workerFrame
    /\ UNCHANGED result_queue

\* a worker that posts its result only when it has written a light curve
Put_skipempty(w) ==
    /\ w \in DOMAIN proc
    /\ proc[w].pc = "put"
    /\ result_queue' = IF proc[w].meta_lc = EmptyDict THEN result_queue
                       ELSE Append(result_queue, [key |-> w, val |-> proc[w].meta_lc])
    /\ proc' = [proc EXCEPT ![w].pc = "posted"]
    /\ UNCHANGED workerFrame
    /\ UNCHANGED lcFile

\* output_q.put({j: meta_lc})
Put(w) ==
    /\ w \in DOMAIN proc
    /\ proc[w].pc = "put"
    /\ result_queue' = Append(result_queue, [key |-> w, val |-> proc[w].meta_lc])
    /\ proc' = [proc EXCEPT ![w].pc = "posted"]
    /\ UNCHANGED workerFrame
    /\ UNCHANGED lcFile

\* the worker process ends after simuLoop returns
Exit(w) ==
    /\ w \in DOMAIN proc
    /\ proc[w].pc = "posted"
    /\ proc' = [proc EXCEPT ![w].pc = "done"]
    /\ UNCHANGED workerFrame
    /\ UNCHANGED <<lcFile, result_queue>>

\* writeLC writes the table (lc.write) before it extends the accumulator:
\* when only the extension raises, the table is in the artifact
WrittenBeforeRaise(w) ==
    LET p  == proc[w]
        lc == p.list_lc[p.d]
    IN  /\ p.pc \in {"dump", "lastdump"}
        /\ iproc \in DOMAIN p.SNID
        /\ LcPath(lc, season) \notin lcFile[iproc]
        /\ ExtendRaises(p.meta_lc, MetaDict(p.SNID[iproc] + 1, lc, season))

\* an unhandled error ends the worker process before it posts its result;
\* what the process held in memory is lost
Crash(w) ==
    /\ w \in DOMAIN proc
    /\ proc[w].pc \in {"loop", "fast", "dump", "lastdump", "put"}
    /\ proc' = [proc EXCEPT ![w] = [NoProc EXCEPT !.pc = "crashed"]]
    /\ lcFile' = IF WrittenBeforeRaise(w)
                 THEN [lcFile EXCEPT ![iproc] =
                         @ \cup {LcPath(proc[w].list_lc[proc[w].d], season)}]
                 ELSE lcFile
    /\ UNCHANGED workerFrame
    /\ UNCHANGED result_queue

Workers == 0..(MaxProcs - 1)

WorkerStep == \E w \in Workers :
                 \/ Simulate(w) \/ SimulateFast(w) \/ LoopExit(w) \/ WriteLC(w)
                 \/ Put(w) \/ Exit(w) \/ Crash(w)

ParentStep(maxNlc, raws) ==
    \/ \E tag \in Tags, pix \in Pixels, slist \in SeasonLists : RunBegin(tag, pix, slist)
    \/ \E raw \in raws : SeasonSkip(raw)
    \/ \E raw \in raws : SimuSeasonNone(raw)
    \/ \E raw \in raws, nlc \in 0..maxNlc : SimuSeasonBegin(raw, nlc)
    \/ StartProcess
    \/ Receive
    \/ Join
    \/ Merge
    \/ SeasonReturn
    \/ RunEnd

Next == ParentStep(MaxNlc, RawSeasons) \/ WorkerStep

Spec == Init /\ [][Next]_vars

(***************************************************************************)
(* One season under fair scheduling: the parent, inside simuSeason, and    *)
(* every worker process that can take a step eventually take one.  The     *)
(* death of a worker is not subject to fairness.                           *)
(***************************************************************************)
ParentSeasonStep == StartProcess \/ Receive \/ Join \/ Merge

WorkerRun(w) == Simulate(w) \/ SimulateFast(w) \/ LoopExit(w) \/ WriteLC(w)
                \/ Put(w) \/ Exit(w)

InitLive == InitEngine(Configs(1..MaxProcs), 1, {NoFiles}) /\ arg = <<>> /\ res = <<>>

NextLive == ParentStep(MaxNlc, RawSeasons) \/ WorkerStep

SpecLive == /\ InitLive /\ [][NextLive]_vars
            /\ WF_vars(ParentSeasonStep)
            /\ \A w \in Workers : WF_vars(WorkerRun(w))

(***************************************************************************)
(* The single-worker loop: one season of up to MaxLoopNlc parameters, so   *)
(* that the buffer of simuLoop fills up: the Physics backend with          *)
(* nproc = 1, the FastTable backend with nproc = 1..MaxProcs.              *)
(***************************************************************************)
LoopConfigs == Configs({1}) \cup
               [nprocs : 2..MaxProcs, name : {FastName}, save_status : {TRUE},
                sn_init : {InitSrc, InitFull}, pandas2 : {FALSE}]

InitLoop == InitEngine(LoopConfigs, 1, {NoFiles}) /\ arg = <<>> /\ res = <<>>

NextLoop == ParentStep(MaxLoopNlc, RawSeasons) \/ WorkerStep

SpecLoop == InitLoop /\ [][NextLoop]_vars

(***************************************************************************)
(* Output paths that hold the artifacts of an earlier, independent run     *)
(* (of pixel 7) when the engine is constructed.                            *)
(***************************************************************************)
OldTable == SNcosmo(ObsSeason, GenParAt(1), 7, 1)[1]

StaleFiles == [lc   |-> {LcPath(OldTable, 1)},
               simu |-> {[name |-> SummaryName(7),
                          table |-> ExtendMeta(EmptyDict, MetaDict(11, OldTable, 1))]}]

InitStale == InitEngine(Configs({2}), MaxSeasons, {NoFiles, StaleFiles})
             /\ arg = <<>> /\ res = <<>>

NextStale == ParentStep(2, RawSeasons) \/ WorkerStep

SpecStale == InitStale /\ [][NextStale]_vars

(***************************************************************************)
(* Several calls of run() on one engine: one worker, grids of at most one  *)
(* parameter, one season more than in the engine specification, output     *)
(* paths that may hold old artifacts.                                      *)
(***************************************************************************)
InitRerun == InitEngine(Configs({1}), MaxSeasons + 1, {NoFiles, StaleFiles})
             /\ arg = <<>> /\ res = <<>>

NextRerun == ParentStep(1, RawSeasons) \/ WorkerStep

SpecRerun == InitRerun /\ [][NextRerun]_vars

(***************************************************************************)
(* Calls of run() for the observations of two pixels, with one or two      *)
(* workers and grids of at most two parameters; the observations may hold  *)
(* season 2 without season 1.                                              *)
(***************************************************************************)
SummaryPixels == {11, 12}

\* with the observations of season 2 alone
SummarySeasonLists == SeasonLists \cup { <<2>> }

InitSummary == InitEngine(Configs({1, 2}), MaxSeasons, {NoFiles})
               /\ arg = <<>> /\ res = <<>>

NextSummary ==
    \/ \E tag \in Tags, pix \in SummaryPixels, slist \in SummarySeasonLists :
          RunBegin(tag, pix, slist)
    \/ \E raw \in RawSeasons : SeasonSkip(raw)
    \/ \E raw \in RawSeasons : SimuSeasonNone(raw)
    \/ \E raw \in RawSeasons, nlc \in 0..2 : SimuSeasonBegin(raw, nlc)
    \/ StartProcess
    \/ Receive
    \/ Join
    \/ Merge
    \/ SeasonReturn
    \/ RunEnd
    \/ WorkerStep

SpecSummary == InitSummary /\ [][NextSummary]_vars

(***************************************************************************)
(* An engine whose configuration may set Output.save to false.             *)
(***************************************************************************)
SaveConfigs == Builds([nprocs : 1..MaxProcs, name : {CosmoName, FastName},
                       save_status : BOOLEAN, sn_init : {InitSrc, InitFull},
                       pandas2 : BOOLEAN])

InitNoSave == InitEngine(SaveConfigs, 1, {NoFiles}) /\ arg = <<>> /\ res = <<>>

NextNoSave == ParentStep(MaxNlc, RawSeasons) \/ WorkerStep

SpecNoSave == InitNoSave /\ [][NextNoSave]_vars

(***************************************************************************)
(* The season guard of run(): seasons with 0, 4, 5 and 6 visits outside    *)
(* the u band, one worker, grids of at most one parameter.                 *)
(***************************************************************************)
RawFive == << Visit(589990000, <<"u">>) >> \o SubSeq(ObsSeason, 1, 5)
           \o << Visit(590220000, <<"u">>) >>

RawOnlyU == [i \in 1..5 |-> Visit(590000000 + 50000 * i, <<"u">>)]

GuardSeasons == {RawFull, RawShort, RawFive, RawOnlyU, <<>>}

InitGuard == InitEngine(Configs({1}), MaxSeasons, {NoFiles}) /\ arg = <<>> /\ res = <<>>

NextGuard == ParentStep(1, GuardSeasons) \/ WorkerStep

SpecGuard == InitGuard /\ [][NextGuard]_vars

(***************************************************************************)
(* Function specifications: the inputs are drawn in the initial state and  *)
(* one step applies the function of the engine to them.                    *)
(***************************************************************************)
InitIdle == InitEngine({[nprocs |-> 1, name |-> CosmoName, save_status |-> TRUE,
                         sn_init |-> InitFull, pandas2 |-> FALSE]}, 0, {NoFiles})

\* simuSeason's boundaries for a grid of arg.nlc parameters and arg.npp workers
InitBatch == InitIdle /\ arg \in [nlc : 0..MaxTotal, npp : 1..MaxN] /\ res = <<>>

ApplyLinspace ==
    /\ res = <<>>
    /\ res' = linspace(arg.nlc, arg.npp)
    /\ UNCHANGED arg
    /\ UNCHANGED engineVars

SpecBatch == InitBatch /\ [][ApplyLinspace]_vars

\* writeLC's index for two tables
IdxMetas ==
    { [healpixID |-> pix, x1 |-> x1, color |-> col, z |-> z, daymax |-> dm,
       epsilon_x0 |-> 0, epsilon_x1 |-> 0, epsilon_color |-> ec, epsilon_daymax |-> 0] :
        pix \in {1, 11}, x1 \in {0, -2000}, col \in {0, 200}, z \in {3000, 3004, 3006},
        dm \in {590100000, 590100004, 590200000}, ec \in {0, 100} }

IdxInputs == [meta : IdxMetas, season : {1, 11}]

InitIndex == InitIdle /\ arg \in [a : IdxInputs, b : IdxInputs] /\ res = <<>>

ApplyIndex ==
    /\ res = <<>>
    /\ res' = << IndexOf(arg.a.meta, arg.a.season), IndexOf(arg.b.meta, arg.b.season) >>
    /\ UNCHANGED arg
    /\ UNCHANGED engineVars

SpecIndex == InitIndex /\ [][ApplyIndex]_vars

\* writeLC's epsilon code and index for two tables that differ in their
\* epsilons only
EpsMetas ==
    { [healpixID |-> 1, x1 |-> 0, color |-> 0, z |-> 3000, daymax |-> 590100000,
       epsilon_x0 |-> e0, epsilon_x1 |-> e1, epsilon_color |-> ec, epsilon_daymax |-> ed] :
        e0 \in {-100, 0, 10, 100, 300}, e1 \in {-100, 0, 100}, ec \in {-100, 0, 100},
        ed \in {-100, 0, 1, 100} }

InitEps == InitIdle /\ arg \in [a : EpsMetas, b : EpsMetas] /\ res = <<>>

ApplyEps ==
    /\ res = <<>>
    /\ res' = [codeA |-> EpsilonCode(arg.a), codeB |-> EpsilonCode(arg.b),
               indexA |-> IndexOf(arg.a, 1), indexB |-> IndexOf(arg.b, 1)]
    /\ UNCHANGED arg
    /\ UNCHANGED engineVars

SpecEps == InitEps /\ [][ApplyEps]_vars

\* one call of the Physics backend, on the visits of a season as simuLCs
\* hands them over: run() starts a season only with five visits or more
CosmoInputs ==
    [obs : {ObsSeason, RemoveU(RawFive)},
     genpar : {GenParAt(k) : k \in 1..6}
              \cup {GenPar(3000, 589700000, 0, 0, 0, 0, 0, 0),
                    GenPar(10000, 591500000, -2000, 200, 100, 0, 0, 0)},
     pix : {1, 11}, season : {1, 2}, pandas2 : BOOLEAN]

InitCosmo == InitIdle /\ arg \in CosmoInputs /\ res = <<>>

ApplyCosmo ==
    /\ res = <<>>
    /\ res' = IF \/ SNcosmoRaises(arg.obs)
                 \/ SNcosmoGroupRaises(arg.pandas2, arg.obs, arg.genpar)
              THEN [raised |-> TRUE, tables |-> <<>>]
              ELSE [raised |-> FALSE,
                    tables |-> SNcosmo(arg.obs, arg.genpar, arg.pix, arg.season)]
    /\ UNCHANGED arg
    /\ UNCHANGED engineVars

SpecCosmo == InitCosmo /\ [][ApplyCosmo]_vars

\* the integrated fluxes of up to three epochs, before the magnitudes
FluxValues == {-200, -1, 0, 1, 363100}

InitFlux == InitIdle /\ arg \in UNION {[1..n -> FluxValues] : n \in 1..3} /\ res = <<>>

ApplyClamp ==
    /\ res = <<>>
    /\ res' = [flux |-> clampFluxes(arg)]
    /\ UNCHANGED arg
    /\ UNCHANGED engineVars

SpecFlux == InitFlux /\ [][ApplyClamp]_vars

\* one call of the Physics backend, with the rows of its table: the visits
\* in any order, and a spectral model whose integrated flux changes with the
\* time (by slope for every half day) and with the band
MaxEpochs == 3      \* most visits of a season given in any order

EpochVisit(i) == Visit(590000000 + 50000 * i, IF i % 2 = 1 THEN <<"g">> ELSE <<"r">>)

EpochOrders ==
    UNION { { [j \in 1..n |-> EpochVisit(f[j])] :
                f \in { g \in [1..n -> 1..MaxEpochs] :
                           \A a \in 1..n, b \in 1..n : a # b => g[a] # g[b] } } :
            n \in 1..MaxEpochs }

Reverse(seq) == [j \in 1..Len(seq) |-> seq[Len(seq) + 1 - j]]

SedModels == [slope : {-4, 0, 3}, bandstep : {0, 2}, base : {-2, 3}]

RowInputs ==
    [obs : EpochOrders \cup {ObsSeason, Reverse(ObsSeason)},
     genpar : {GenParAt(1), GenParAt(3), GenPar(3000, 590330000, 0, 0, 0, 0, 0, 0)},
     sed : SedModels, pandas2 : BOOLEAN]

InitRows == InitIdle /\ arg \in RowInputs /\ res = <<>>

ApplyRows ==
    /\ res = <<>>
    /\ LET sel == cutoff(arg.obs, arg.genpar.daymax, arg.genpar.z)
       IN  res' = IF \/ SNcosmoRaises(arg.obs)
                     \/ SNcosmoGroupRaises(arg.pandas2, arg.obs, arg.genpar)
                  THEN [raised |-> TRUE, tables |-> <<>>, rows |-> <<>>]
                  ELSE [raised |-> FALSE,
                        tables |-> SNcosmo(arg.obs, arg.genpar, 11, 1),
                        rows   |-> IF Len(sel) = 0 THEN <<>> ELSE LcRows(sel, arg.sed)]
    /\ UNCHANGED arg
    /\ UNCHANGED engineVars

SpecRows == InitRows /\ [][ApplyRows]_vars

\* one call of transform: the rows of the interpolated result, each with its
\* z, its daymax and the time of its epoch
MaxRows == 4      \* most rows of the result

FastKeys == { <<3000, 590100000>>, <<3000, 590200000>>, <<3004, 590100000>> }

TabOf(keys) == [j \in 1..Len(keys) |->
                  [z |-> keys[j][1], daymax |-> keys[j][2], time |-> 590000000 + 50000 * j]]

InitTransform ==
    /\ InitIdle
    /\ \E n \in 0..MaxRows : \E keys \in [1..n -> FastKeys] :
          arg = [tab |-> TabOf(keys), premeta |-> premeta(<< GenParAt(1) >>, 11)]
    /\ res = <<>>

ApplyTransform ==
    /\ res = <<>>
    /\ res' = [tables |-> transformRows(arg.tab, arg.premeta)]
    /\ UNCHANGED arg
    /\ UNCHANGED engineVars

SpecTransform == InitTransform /\ [][ApplyTransform]_vars

(***************************************************************************)
(* Properties.                                                             *)
(***************************************************************************)

\* C1 (SpecBatch). Partition completeness: the boundaries start at 0, end at
\* the grid size and never decrease, and every parameter index of
\* [0, total) lies in exactly one of the N slices [b[i], b[i+1]).
C1_PartitionComplete ==
    res # <<>> =>
        /\ Len(res) = arg.npp + 1
        /\ res[1] = 0
        /\ res[arg.npp + 1] = arg.nlc
        /\ \A i \in 1..arg.npp : res[i] <= res[i + 1]
        /\ \A x \in 0..(arg.nlc - 1) :
              Cardinality({i \in 1..arg.npp : res[i] <= x /\ x < res[i + 1]}) = 1

\* a grid that does not divide evenly, and one with more workers than parameters
C1_Witness ==
    /\ res # <<>>
    /\ arg.nlc = 2
    /\ arg.npp = 5
    /\ \E i \in 1..arg.npp : res[i] = res[i + 1]
    /\ \E i \in 1..arg.npp : res[i] < res[i + 1]

\* C3 (SpecIndex). Index uniqueness: two tables whose (pixel, x1, color,
\* z rounded to 3 decimals, daymax rounded to 3 decimals, season) differ in
\* some component get different index strings, whatever their epsilons.
Key6(in) == << in.meta.healpixID, in.meta.x1, in.meta.color, Round3(in.meta.z),
               Round3(in.meta.daymax), in.season >>

C3_IndexUnique ==
    (res # <<>> /\ Key6(arg.a) # Key6(arg.b)) => res[1] # res[2]

\* the same inputs with daymax moved by 10 days, and different epsilons
C3_Witness ==
    /\ res # <<>>
    /\ arg.b = [arg.a EXCEPT !.meta.daymax = @ + 100000, !.meta.epsilon_color = 100]
    /\ arg.a.meta.epsilon_color = 0
    /\ res[1] # res[2]

\* C4 (SpecEps), as stated: any two different epsilon combinations get
\* different epsilon codes and different index strings.
EpsOf(m) == << m.epsilon_x0, m.epsilon_x1, m.epsilon_color, m.epsilon_daymax >>

C4_AnyEpsilonsDistinct ==
    (res # <<>> /\ EpsOf(arg.a) # EpsOf(arg.b)) =>
        (res.codeA # res.codeB /\ res.indexA # res.indexB)

\* C4 (SpecEps), amended: when each of the four epsilons is -1e-8, 0 or
\* +1e-8, two different combinations get different epsilon codes and
\* different index strings.
UnitEps(m) == \A i \in 1..4 : EpsOf(m)[i] \in {-100, 0, 100}

C4_UnitEpsilonsDistinct ==
    (res # <<>> /\ EpsOf(arg.a) # EpsOf(arg.b) /\ UnitEps(arg.a) /\ UnitEps(arg.b)) =>
        (res.codeA # res.codeB /\ res.indexA # res.indexB)

\* two mixed-sign combinations of unit epsilons
C4_Witness ==
    /\ res # <<>>
    /\ EpsOf(arg.a) = << 100, -100, 0, 0 >>
    /\ EpsOf(arg.b) = << -100, 100, 100, 100 >>
    /\ res.codeA = 900
    /\ res.codeB # res.codeA

(***************************************************************************)
(* Properties of the engine.                                               *)
(***************************************************************************)
Started == { w \in DOMAIN proc : proc[w].pc # "none" }

\* the tables a worker has handed to writeLC, in order
LcsOf(wrote) == [i \in 1..Len(wrote) |-> wrote[i].lc]

\* C2 (Spec), as stated: no two light curves written during a season, by
\* the same shard or by two shards of the season, are given the same SNID.
C2_SNIDUnique ==
    \A w1 \in DOMAIN proc, w2 \in DOMAIN proc :
        \A i \in 1..Len(proc[w1].wrote), j \in 1..Len(proc[w2].wrote) :
            (<<w1, i>> # <<w2, j>>) => proc[w1].wrote[i].SNID # proc[w2].wrote[j].SNID

\* C5 (Spec). Metadata merge determinism: the merge starts at shard 0, each
\* merge step appends, field by field, the lists accumulated by worker mj
\* itself to the store, then moves to shard mj + 1, and the merge ends after
\* shard N-1, whatever the order in which the results arrived.
FieldConcat(a, b) ==
    [key \in (DOMAIN a) \cup (DOMAIN b) |->
        (IF key \in DOMAIN a THEN a[key] ELSE <<>>)
        \o (IF key \in DOMAIN b THEN b[key] ELSE <<>>)]

C5_MergeStep ==
    /\ (pc = "join" /\ pc' = "merge") => mj' = 0
    /\ (pc = "merge" /\ pc' # "raised") =>
          /\ sn_meta'[iproc] = FieldConcat(sn_meta[iproc], proc[mj].meta_lc)
          /\ mj' = mj + 1
          /\ pc' = (IF mj' = Npp THEN "return" ELSE "merge")
    /\ (pc = "merge") => pc' # "raised"

C5_MergeInShardOrder == [][C5_MergeStep]_vars

\* the result of shard 1 arrived first, both shards wrote light curves, the
\* store held records of an earlier season, and the merge is complete
C5_Witness ==
    /\ pc = "return"
    /\ season = 2
    /\ Len(resultdict) = 2
    /\ resultdict[1].key = 1
    /\ mj = 2
    /\ Len(proc[0].wrote) > 0
    /\ Len(proc[1].wrote) > 0
    /\ Len(sn_meta[iproc]["index_hdf5"]) > Len(proc[0].wrote) + Len(proc[1].wrote)

\* C6 (Spec). Crashed worker blocks the parent: once a worker process has
\* died before posting its result, the parent is still starting workers or
\* is waiting in the receive loop; it never joins, merges, writes the
\* summary or returns from run().
SomeCrashed == \E w \in DOMAIN proc : proc[w].pc = "crashed"

C6_CrashBlocksParent == SomeCrashed => pc \in {"start", "recv"}

\* one of two workers died, the other result was received, the parent waits
C6_Witness ==
    /\ SomeCrashed
    /\ Npp = 2
    /\ pc = "recv"
    /\ nrecv = 1
    /\ result_queue = <<>>
    /\ \A w \in DOMAIN proc : proc[w].pc \in {"crashed", "done"}

\* C7 (Spec). Fan-in ordering: N processes are started, empty shards
\* included; the parent joins only after N receives and merges only after
\* all children have ended; each worker posts one message, under its own
\* shard index, so the collected dict has exactly the keys 0..N-1, each
\* with the result of its worker (the entry the store has been bound to
\* is the store itself and grows with it during the merge).
Posts(w) == Cardinality({n \in 1..Len(result_queue) : result_queue[n].key = w})
            + Cardinality({n \in 1..Len(resultdict) : resultdict[n].key = w})

C7_FanIn ==
    (pc \in {"start", "recv", "join", "merge", "return"}) =>
        /\ DOMAIN proc = 0..(Npp - 1)
        /\ Started = 0..(nstart - 1)
        /\ pc = "start" => (nstart < Npp /\ nrecv = 0)
        /\ pc \in {"recv", "join", "merge", "return"} => nstart = Npp
        /\ pc = "recv" => nrecv < Npp
        /\ nrecv = Len(resultdict)
        /\ pc \in {"join", "merge", "return"} =>
              /\ nrecv = Npp
              /\ {resultdict[n].key : n \in 1..Len(resultdict)} = 0..(Npp - 1)
        /\ pc \in {"merge", "return"} => \A w \in DOMAIN proc : Terminated(w)
        /\ \A w \in DOMAIN proc :
              /\ Posts(w) = (IF proc[w].pc \in {"posted", "done"} THEN 1 ELSE 0)
              /\ \A n \in 1..Len(resultdict) :
                    resultdict[n].key = w =>
                        resultdict[n].val = (IF w = shared THEN sn_meta[iproc]
                                             ELSE proc[w].meta_lc)

\* two workers, one of them with an empty shard, results arrived in the
\* reverse order, the parent is merging
C7_Witness ==
    /\ pc = "merge"
    /\ Npp = 2
    /\ Len(proc[0].gen) = 0
    /\ Len(proc[1].gen) > 0
    /\ resultdict[1].key = 1
    /\ \A w \in DOMAIN proc : proc[w].pc = "done"

\* C8 (SpecLoop). Incremental flush bound of the Physics backend: in the loop
\* the buffer is flushed exactly when it holds 20 tables and the flush
\* empties it, so between iterations it holds fewer than 20 tables; after
\* the loop there is one more flush exactly when the buffer is not empty.
C8_FlushBound ==
    \A w \in Started :
        LET p == proc[w] IN
        (~IsFast /\ p.pc # "crashed") =>
            /\ p.pc = "loop" =>
                  /\ Len(p.list_lc) < 20
                  /\ Len(p.list_lc) = Len(p.made) % 20
                  /\ Len(p.wrote) = 20 * (Len(p.made) \div 20)
            /\ p.pc = "dump" => Len(p.list_lc) = 20
            /\ p.pc = "lastdump" =>
                  /\ p.k = Len(p.gen)
                  /\ Len(p.list_lc) > 0
                  /\ Len(p.list_lc) < 20
            /\ p.pc \in {"put", "posted", "done"} =>
                  /\ Len(p.wrote) = Len(p.made)
                  /\ (Len(p.list_lc) = 0) <=> (Len(p.made) % 20 = 0)

\* a shard of 41 parameters: two flushes in the loop, one after it
C8_Witness ==
    /\ ~IsFast
    /\ 0 \in Started
    /\ proc[0].pc = "put"
    /\ Len(proc[0].wrote) = 41
    /\ Len(proc[0].list_lc) = 1

\* C9 (SpecLoop), as stated: the tables handed to writeLC are, in order, the
\* tables the backend returned, each of them once, and a written table is no
\* longer in the buffer after the flush that wrote it: between two flushes
\* and after the last one the buffer holds the tables still to be written
\* and no other.
C9_WrittenAndGone ==
    \A w \in Started :
        LET p == proc[w] IN
        (p.pc # "crashed") =>
            /\ Len(p.wrote) <= Len(p.made)
            /\ LcsOf(p.wrote) = SubSeq(p.made, 1, Len(p.wrote))
            /\ p.pc \in {"loop", "put", "posted", "done"} =>
                  p.made = LcsOf(p.wrote) \o p.list_lc
            /\ p.pc \in {"dump", "lastdump"} =>
                  p.made = LcsOf(p.wrote) \o SubSeq(p.list_lc, p.d, Len(p.list_lc))

\* C9 (SpecLoop), amended: the tables handed to writeLC are, in order, the
\* tables the backend returned, each of them once; a table still to be
\* written is in the buffer, and a flush inside the loop empties the buffer;
\* when the worker posts its result every table has been written once, and
\* the buffer still holds the tables of the final flush, which are the last
\* tables the backend returned.
C9_ExactlyOnce ==
    \A w \in Started :
        LET p == proc[w] IN
        (p.pc # "crashed") =>
            /\ Len(p.wrote) <= Len(p.made)
            /\ LcsOf(p.wrote) = SubSeq(p.made, 1, Len(p.wrote))
            /\ p.pc = "loop" => p.made = LcsOf(p.wrote) \o p.list_lc
            /\ p.pc \in {"dump", "lastdump"} =>
                  p.made = LcsOf(p.wrote) \o SubSeq(p.list_lc, p.d, Len(p.list_lc))
            /\ p.pc \in {"put", "posted", "done"} =>
                  /\ LcsOf(p.wrote) = p.made
                  /\ Len(p.list_lc) <= Len(p.made)
                  /\ p.list_lc = SubSeq(p.made, Len(p.made) - Len(p.list_lc) + 1,
                                        Len(p.made))
                  /\ ~IsFast => Len(p.list_lc) = Len(p.made) % 20
            /\ (~IsFast /\ p.pc \in {"loop", "dump", "lastdump", "put", "posted", "done"})
                  => Len(p.made) = p.k

\* a worker has ended after 21 backend calls, a flush of 20 inside the loop
\* and a final one of 1: the 21 tables are written and the last one is still
\* in the buffer
C9_Witness ==
    /\ ~IsFast
    /\ 0 \in Started
    /\ proc[0].pc = "done"
    /\ Len(proc[0].made) = 21
    /\ Len(proc[0].wrote) = 21
    /\ proc[0].list_lc = << proc[0].made[21] >>

\* C10 (Spec), as stated: within a shard the SNIDs increase strictly and the
\* first light curve of shard w gets 10^w.
C10_StartsAtPowerOfShard ==
    \A w \in DOMAIN proc :
        /\ \A i \in 1..(Len(proc[w].wrote) - 1) :
              proc[w].wrote[i].SNID < proc[w].wrote[i + 1].SNID
        /\ Len(proc[w].wrote) > 0 => proc[w].wrote[1].SNID = Pow10(w)

\* C10 (Spec), amended: within a shard the SNIDs increase by one from one
\* light curve to the next, and the first light curve of every shard, in
\* every season, gets 10^iproc + 1, iproc being the tag of the run.
C10_StartsAfterPowerOfTag ==
    \A w \in DOMAIN proc :
        \A i \in 1..Len(proc[w].wrote) : proc[w].wrote[i].SNID = Pow10(iproc) + i

\* shard 1 of a run with tag 2 has written two light curves in a second season
C10_Witness ==
    /\ iproc = 2
    /\ season = 2
    /\ 1 \in DOMAIN proc
    /\ Len(proc[1].wrote) = 2
    /\ proc[1].wrote[1].SNID = 101
    /\ proc[1].wrote[2].SNID = 102

\* C11 (SpecGuard). Empty-season guard: when run() takes up a season that has
\* fewer than 5 visits whose band name does not end in 'u', it goes on to
\* the next season without starting a worker and without touching the
\* light-curve artifact, the metadata store or the summary; with 5 or more
\* such visits simuSeason is entered.  While run() stands after a skipped
\* season the store of the tag holds no record of it.
NonUCount(visits) ==
    Cardinality({i \in 1..Len(visits) : visits[i].band[Len(visits[i].band)] # "u"})

C11_Step ==
    (season' = season + 1) =>
        IF NonUCount(obs_season') < 5
        THEN /\ pc' = "seasons"
             /\ UNCHANGED <<proc, nstart, result_queue, lcFile, sn_meta, simuFile, SNID>>
        ELSE pc' \in {"start", "nogrid"}

C11_SkippedSeasonLeavesNoRecord ==
    (pc = "seasons" /\ season >= 1 /\ NonUCount(obs_season) < 5) =>
        /\ proc = <<>>
        /\ iproc \in DOMAIN sn_meta
        /\ \A key \in DOMAIN sn_meta[iproc] :
              key = "season" => \A i \in 1..Len(sn_meta[iproc][key]) :
                                   sn_meta[iproc][key][i] # season

C11_EmptySeasonGuard == [][C11_Step]_vars /\ []C11_SkippedSeasonLeavesNoRecord

\* the second season has six visits, four of them outside the u band, and
\* was skipped; the first season was processed and left a light curve
C11_Witness ==
    /\ pc = "seasons"
    /\ season = 2
    /\ Len(obs_season) = 6
    /\ NonUCount(obs_season) = 4
    /\ lcFile[iproc] # {}
    /\ DOMAIN sn_meta[iproc] # {}

\* C12 (SpecCosmo). Empty-match guard: a call of the Physics backend whose
\* selection of the visits leaves none raises nothing and returns exactly
\* one table, with no photometric row and status -1 in its metadata, which
\* otherwise are the metadata of the object.
C12_EmptyMatch ==
    (res # <<>> /\ Len(cutoff(arg.obs, arg.genpar.daymax, arg.genpar.z)) = 0) =>
        /\ ~res.raised
        /\ Len(res.tables) = 1
        /\ res.tables[1].n = 0
        /\ res.tables[1].meta.status = -1
        /\ res.tables[1].meta.daymax = arg.genpar.daymax
        /\ res.tables[1].meta.z = arg.genpar.z
        /\ res.tables[1].meta.healpixID = arg.pix

\* six visits, and a peak time 490 days after the last of them
C12_Witness ==
    /\ res # <<>>
    /\ Len(arg.obs) = 6
    /\ arg.genpar.daymax = 595000000
    /\ Len(res.tables) = 1
    /\ res.tables[1].n = 0
    /\ res.tables[1].meta.status = -1

\* C13 (Spec), as stated: the store is written and emptied at the end of each
\* season, so every record-set of a summary artifact holds the records of
\* one season only, and the store is empty when a season begins.
SeasonsOf(table) ==
    IF "season" \in DOMAIN table
    THEN {table["season"][i] : i \in 1..Len(table["season"])}
    ELSE {}

C13_FlushPerSeason ==
    /\ \A t \in Tags : \A e \in simuFile[t] : Cardinality(SeasonsOf(e.table)) <= 1
    /\ pc = "start" => sn_meta[iproc] = EmptyDict

\* C13 (Spec), amended: the summary is written once per call of run(), after
\* the last season of the call: the end of run() appends the store of the
\* tag, if it is not empty, as one record-set named after the pixel and then
\* empties the store; no other step writes a summary artifact, and between
\* the seasons of one call the store is kept, so a record-set holds the
\* records of all the seasons processed by that call.
C13_Step ==
    /\ (simuFile' # simuFile) => (pc = "seasons" /\ pc' = "idle")
    /\ (pc = "seasons" /\ pc' = "idle") =>
          /\ sn_meta'[iproc] = EmptyDict
          /\ simuFile'[iproc] =
                (IF sn_meta[iproc] = EmptyDict THEN simuFile[iproc]
                 ELSE simuFile[iproc] \cup {[name |-> "summary_" \o IntStr(healpixID),
                                              table |-> sn_meta[iproc]]})
          /\ \A t \in Tags \ {iproc} : simuFile'[t] = simuFile[t]
    /\ (pc = "seasons" /\ pc' \in {"seasons", "start", "nogrid"}) => sn_meta' = sn_meta

C13_AllStoresEmptyWhenIdle ==
    pc = "idle" => \A t \in DOMAIN sn_meta : sn_meta[t] = EmptyDict

C13_FlushPerRun == [][C13_Step]_vars /\ []C13_AllStoresEmptyWhenIdle

\* a call of run() has ended and left a record-set with records of its two
\* seasons
C13_Witness ==
    /\ pc = "idle"
    /\ iproc \in DOMAIN sn_meta
    /\ sn_meta[iproc] = EmptyDict
    /\ \E e \in simuFile[iproc] : SeasonsOf(e.table) = {1, 2}

\* C14 (SpecStale). Stale-artifact deletion: once run() has taken up a tag,
\* the summary and light-curve artifacts of that tag hold nothing of what
\* was at their paths when the engine was constructed; this holds from
\* before the first worker is started, through every season of the tag.
C14_StaleDeleted ==
    \A t \in Tags :
        (cfg.save_status /\ t \in nprocdict) =>
            /\ lcFile[t] \cap StaleFiles.lc = {}
            /\ simuFile[t] \cap StaleFiles.simu = {}

\* both paths of every tag held old artifacts; the workers of a tag have
\* written light curves, the other tag was not used and still has its own
C14_Witness ==
    /\ pc = "join"
    /\ lcFile[iproc] # {}
    /\ lcFile[iproc] \cap StaleFiles.lc = {}
    /\ \E t \in Tags \ nprocdict : /\ lcFile[t] = StaleFiles.lc
                                    /\ simuFile[t] = StaleFiles.simu

\* C15 (Spec). Shared-artifact race: every light curve, of whichever worker,
\* is appended to the one light-curve artifact of the tag of the run, and a
\* worker inside dump never waits for another worker: its next write can
\* be taken whatever the other workers are doing, also while they are
\* inside dump themselves.
InDump(w) == proc[w].pc \in {"dump", "lastdump"}

C15_Step ==
    (lcFile' # lcFile /\ pc # "idle") =>
        \E w \in DOMAIN proc :
            /\ InDump(w)
            /\ Len(proc'[w].wrote) = Len(proc[w].wrote) + 1
            /\ lcFile' = [lcFile EXCEPT ![iproc] =
                             @ \cup {"lc_" \o proc'[w].meta_lc["index_hdf5"]
                                                [Len(proc'[w].meta_lc["index_hdf5"])]}]

C15_NoWriterWaits ==
    \A w \in DOMAIN proc : (InDump(w) /\ ~WriteRaises(w)) => ENABLED WriteLC(w)

C15_SharedArtifactRace == [][C15_Step]_vars /\ []C15_NoWriterWaits

\* two workers are inside dump at the same time: worker 1 has appended the
\* first of its two light curves, worker 0 is about to append its own, and
\* the artifact of the tag is the target of both
C15_Witness ==
    /\ Npp = 2
    /\ DOMAIN proc = {0, 1}
    /\ InDump(0) /\ InDump(1)
    /\ Len(proc[0].wrote) = 0
    /\ Len(proc[1].wrote) = 1
    /\ Len(proc[1].list_lc) = 2
    /\ ENABLED WriteLC(0)
    /\ ENABLED WriteLC(1)
    /\ Cardinality(lcFile[iproc]) = 1

\* C16 (SpecLoop). Fast backend scheduling: with a simulator name that
\* contains 'sn_fast' there is one worker whatever nproc is, its shard is
\* the whole grid, the tables it holds are those of one call of the backend
\* on the whole grid, the loop with its flush every 20 tables is never
\* entered, and the one flush after the call goes through all the tables.
C16_State ==
    (IsFast /\ pc \in {"start", "recv", "join", "merge", "return"}) =>
        /\ DOMAIN proc = {0}
        /\ batch = << 0, Len(gen_params) >>
        /\ proc[0].pc \notin {"loop", "dump"}
        /\ proc[0].pc \in {"fast", "lastdump", "put", "posted", "done"} =>
              proc[0].gen = gen_params
        /\ proc[0].pc = "fast" => (proc[0].made = <<>> /\ proc[0].wrote = <<>>)
        /\ proc[0].pc \in {"lastdump", "put", "posted", "done"} =>
              /\ proc[0].made = SNfast(RemoveU(obs_season), gen_params, healpixID)
              /\ proc[0].list_lc = proc[0].made
        /\ proc[0].pc = "lastdump" =>
              LcsOf(proc[0].wrote) = SubSeq(proc[0].list_lc, 1, proc[0].d - 1)
        /\ proc[0].pc \in {"put", "posted", "done"} =>
              LcsOf(proc[0].wrote) = proc[0].list_lc

C16_Step ==
    (IsFast /\ 0 \in DOMAIN proc /\ 0 \in DOMAIN proc'
       /\ proc[0].pc \notin {"none", "fast"} /\ proc'[0].pc # "crashed") =>
         (proc'[0].made = proc[0].made /\ proc'[0].pc # "fast")

C16_FastScheduling == []C16_State /\ [][C16_Step]_vars

\* nproc = 2 and the fast backend: the only worker has flushed, in one go,
\* the 28 tables of a grid of 41 parameters
C16_Witness ==
    /\ IsFast
    /\ cfg.nprocs = 2
    /\ Len(gen_params) = 41
    /\ DOMAIN proc = {0}
    /\ proc[0].pc = "put"
    /\ Len(proc[0].wrote) = 28
    /\ Len(proc[0].list_lc) = 28

\* C17 (SpecFlux), as stated: every integrated flux that is negative or zero
\* is replaced by the floor, so the flux whose logarithm gives the magnitude
\* is strictly positive for every epoch.
C17_LogArgumentPositive ==
    res # <<>> =>
        \A i \in DOMAIN arg :
            /\ res.flux[i] > 0
            /\ arg[i] <= 0 => res.flux[i] = FluxFloor
            /\ arg[i] > 0 => res.flux[i] = arg[i]

\* C18 (Spec), as stated: the record that writeLC appends to the accumulator
\* for a table carries, under 'SNID', the identity that dump gave to the
\* table, under 'index_hdf5' its index and under 'n_lc_points' its number
\* of rows.
C18_RecordCarriesWriterSNID ==
    \A w \in DOMAIN proc :
        \A i \in 1..Len(proc[w].wrote) :
            /\ proc[w].meta_lc["SNID"][i] = proc[w].wrote[i].SNID
            /\ proc[w].meta_lc["index_hdf5"][i] = IndexOf(proc[w].wrote[i].lc.meta, season)
            /\ proc[w].meta_lc["n_lc_points"][i] = proc[w].wrote[i].lc.n

\* C19 (Spec), as stated: a table handed to writeLC always becomes a new
\* named entry of the artifact, also when an entry with its index is there
\* already: no worker stands at a write whose path is in the artifact.
C19_EveryWriteAddsEntry ==
    \A w \in DOMAIN proc :
        InDump(w) => LcPath(proc[w].list_lc[proc[w].d], season) \notin lcFile[iproc]

\* C20 (Spec). Worker isolation: a step of a worker changes the record of
\* that worker only and leaves the counter, the store and the collected
\* results of the parent as they are; a worker starts from a copy of the
\* counter of the parent; and from the start of the workers to the start of
\* the merge the counter and the store of the parent do not change.
C20_Step ==
    /\ \A w1 \in DOMAIN proc, w2 \in DOMAIN proc :
          (w1 # w2 /\ DOMAIN proc' = DOMAIN proc /\ proc'[w1] # proc[w1])
              => proc'[w2] = proc[w2]
    /\ \A w \in DOMAIN proc :
          (DOMAIN proc' = DOMAIN proc /\ proc'[w] # proc[w]) =>
              IF proc[w].pc = "none"
              THEN proc'[w].SNID = SNID /\ proc'[w].meta_lc = EmptyDict
                   /\ proc'[w].list_lc = <<>>
              ELSE UNCHANGED <<SNID, sn_meta, resultdict>>
    /\ (pc \in {"start", "recv", "join"}) => UNCHANGED <<SNID, sn_meta>>

C20_WorkerIsolation == [][C20_Step]_vars

\* both workers have counted and recorded their own light curves; the
\* counter of the parent still has its seed and the store is empty
C20_Witness ==
    /\ pc = "join"
    /\ DOMAIN proc = {0, 1}
    /\ proc[0].SNID[iproc] = Pow10(iproc) + 1
    /\ proc[1].SNID[iproc] = Pow10(iproc) + 2
    /\ SNID[iproc] = Pow10(iproc)
    /\ sn_meta[iproc] = EmptyDict
    /\ proc[1].meta_lc # EmptyDict

\* C21 (SpecTransform). FastTable grouping: transform returns one table for
\* each distinct (z, daymax) pair of the rows of the result and no other;
\* every row is in exactly one table, the table of its pair; no table is
\* empty; the metadata of a table are its pair under 'z' and 'daymax'
\* together with every field of the parameters shared by the shard.
PairsOf(tab) == { <<tab[j].z, tab[j].daymax>> : j \in 1..Len(tab) }

C21_FastGrouping ==
    res # <<>> =>
        LET T == res.tables IN
        /\ Len(T) = Cardinality(PairsOf(arg.tab))
        /\ \A key \in PairsOf(arg.tab) :
              Cardinality({i \in 1..Len(T) : <<T[i].meta.z, T[i].meta.daymax>> = key}) = 1
        /\ \A j \in 1..Len(arg.tab) :
              Cardinality({i \in 1..Len(T) :
                             \E n \in 1..Len(T[i].rows) : T[i].rows[n] = arg.tab[j]}) = 1
        /\ \A i \in 1..Len(T) :
              /\ Len(T[i].rows) > 0
              /\ \A n \in 1..Len(T[i].rows) :
                    /\ \E j \in 1..Len(arg.tab) : T[i].rows[n] = arg.tab[j]
                    /\ <<T[i].rows[n].z, T[i].rows[n].daymax>>
                          = <<T[i].meta.z, T[i].meta.daymax>>
              /\ \A n \in 1..(Len(T[i].rows) - 1) :
                    T[i].rows[n].time < T[i].rows[n + 1].time
              /\ DOMAIN T[i].meta = (DOMAIN arg.premeta) \cup {"z", "daymax"}
              /\ \A k \in DOMAIN arg.premeta : T[i].meta[k] = arg.premeta[k]

\* four rows of three pairs, two of them with the same z, the rows of one
\* pair not next to each other: three tables, one of them with two rows
C21_Witness ==
    /\ res # <<>>
    /\ Len(arg.tab) = 4
    /\ <<arg.tab[1].z, arg.tab[1].daymax>> = <<3000, 590200000>>
    /\ <<arg.tab[2].z, arg.tab[2].daymax>> = <<3004, 590100000>>
    /\ <<arg.tab[3].z, arg.tab[3].daymax>> = <<3000, 590200000>>
    /\ <<arg.tab[4].z, arg.tab[4].daymax>> = <<3000, 590100000>>
    /\ Len(res.tables) = 3
    /\ Len(res.tables[2].rows) = 2

\* C22 (SpecRows), as stated: every call of the Physics backend, whatever
\* the pandas of the installation, raises nothing and returns exactly one
\* table; when k >= 1 visits pass the selection the table has k rows, one
\* for each selected visit, those of negative flux included, and status 1.
Selected == cutoff(arg.obs, arg.genpar.daymax, arg.genpar.z)

C22_PhysicsShape ==
    res # <<>> =>
        /\ ~res.raised
        /\ Len(res.tables) = 1
        /\ Len(Selected) >= 1 =>
              /\ res.tables[1].n = Len(Selected)
              /\ res.tables[1].meta.status = 1
              /\ Len(res.rows) = Len(Selected)
              /\ \A j \in 1..Len(Selected) :
                    Cardinality({n \in 1..Len(res.rows) :
                                   res.rows[n].time = Selected[j].mjd}) = 1

\* the six visits of a season, all selected, the flux of the model negative
\* at some of them: one table of six rows with status 1
C22_Witness ==
    /\ res # <<>>
    /\ arg.obs = ObsSeason
    /\ Len(Selected) = 6
    /\ \E j \in 1..6 : SedFluxOf(arg.sed, ObsSeason[j].mjd, ObsSeason[j].band) < 0
    /\ Len(res.tables) = 1
    /\ res.tables[1].n = 6
    /\ res.tables[1].meta.status = 1
    /\ Len(res.rows) = 6

\* C29 (SpecRows), as stated: whatever the order of the visits, every row of
\* the table has the time and the band of one selected visit and, as its
\* flux, the integrated flux of the model at that time through that band
\* (the floor when that flux is negative).
C29_RowsAligned ==
    res # <<>> =>
        \A n \in 1..Len(res.rows) :
            \E j \in 1..Len(Selected) :
                /\ res.rows[n].time = Selected[j].mjd
                /\ res.rows[n].band = LSSTBand(Selected[j].band)
                /\ res.rows[n].flux =
                      clampFluxes(<< SedFluxOf(arg.sed, Selected[j].mjd,
                                               Selected[j].band) >>)[1]

\* C23 (Spec). Parameter consumed exactly once: with the Physics backend
\* every index of the grid of the season lies in the shard of exactly one
\* worker, the shard of a worker is that part of the grid, the backend calls
\* of a worker are, one each and in order, for the first k parameters of
\* its shard, and a worker that has left the loop has called the backend
\* for all of them; when the parent merges, the calls of all the workers
\* are as many as the parameters of the grid.
RECURSIVE SumCalls(_)
SumCalls(W) == IF W = {} THEN 0
               ELSE LET w == CHOOSE x \in W : TRUE
                    IN  proc[w].k + SumCalls(W \ {w})

C23_ConsumedOnce ==
    (~IsFast /\ pc \in {"start", "recv", "join", "merge", "return"}) =>
        /\ \A x \in 1..Len(gen_params) :
              Cardinality({w \in 0..(Npp - 1) : batch[w + 1] < x /\ x <= batch[w + 2]}) = 1
        /\ \A w \in Started :
              LET p == proc[w] IN
              (p.pc # "crashed") =>
                  /\ p.gen = SubSeq(gen_params, batch[w + 1] + 1, batch[w + 2])
                  /\ p.k <= Len(p.gen)
                  /\ Len(p.made) = p.k
                  /\ \A i \in 1..p.k :
                        /\ p.made[i].meta.z = gen_params[batch[w + 1] + i].z
                        /\ p.made[i].meta.daymax = gen_params[batch[w + 1] + i].daymax
                  /\ p.pc \in {"lastdump", "put", "posted", "done"} => p.k = Len(p.gen)
        /\ pc \in {"merge", "return"} => SumCalls(DOMAIN proc) = Len(gen_params)

\* a grid of three parameters and two workers: one call in worker 0, two
\* in worker 1, and the parent is merging
C23_Witness ==
    /\ ~IsFast
    /\ pc = "merge"
    /\ Npp = 2
    /\ Len(gen_params) = 3
    /\ proc[0].k = 1
    /\ proc[1].k = 2
    /\ proc[1].made[1].meta.daymax = gen_params[2].daymax
    /\ proc[1].made[2].meta.daymax = gen_params[3].daymax

\* C24 (SpecBatch). Shard balance: the size of every shard is the floor or
\* the ceiling of total/N, so the sizes of two shards differ by at most 1.
ShardSize(b, i) == b[i + 1] - b[i]

C24_ShardBalance ==
    res # <<>> =>
        LET q == arg.nlc \div arg.npp
            c == IF arg.nlc % arg.npp = 0 THEN q ELSE q + 1
        IN  /\ \A i \in 1..arg.npp : ShardSize(res, i) \in {q, c}
            /\ \A i \in 1..arg.npp, j \in 1..arg.npp :
                  ShardSize(res, i) - ShardSize(res, j) \in {-1, 0, 1}

\* 30 parameters for 22 workers: the step 30/22 is a double just below the
\* quotient, so the boundary of index 11 is 14 and not 15; eight shards of
\* 2 and fourteen of 1
C24_Witness ==
    /\ res # <<>>
    /\ arg.nlc = 30
    /\ arg.npp = 22
    /\ res[12] = 14
    /\ Cardinality({i \in 1..22 : ShardSize(res, i) = 2}) = 8
    /\ Cardinality({i \in 1..22 : ShardSize(res, i) = 1}) = 14

\* C25 (SpecNoSave), as stated: every round of the merge of simuSeason
\* takes the result of one worker into the store of the season, each field
\* of the result created in the store with the list of the worker, or
\* extended by it when the store has the field, and no round raises an
\* error.
C25_MergeRound ==
    (pc = "merge" /\ \A w \in DOMAIN proc : proc'[w].pc = proc[w].pc) =>
        /\ pc' # "raised"
        /\ iproc \in DOMAIN sn_meta
        /\ mj' = mj + 1
        /\ sn_meta'[iproc] = FieldConcat(sn_meta[iproc], GetKey(resultdict, mj))

C25_CreateOrExtend == [][C25_MergeRound]_vars

\* C26 (SpecLive). Season completion: once simuSeason has set up its queue,
\* it reaches the end of the merge unless a worker process fails (dies, or
\* stands at a call that raises), whatever the number of workers and the
\* size of the grid, shards of no parameter included.
WorkerFailed ==
    \E w \in DOMAIN proc :
        \/ proc[w].pc = "crashed"
        \/ SimulateRaises(w)
        \/ InDump(w) /\ WriteRaises(w)

C26_SeasonCompletes == (pc = "start") ~> (pc = "return" \/ WorkerFailed)

\* two workers and one parameter: the worker of the empty shard has posted
\* an empty result, both children have ended and the merge is complete
C26_Witness ==
    /\ pc = "return"
    /\ Npp = 2
    /\ Len(gen_params) = 1
    /\ proc[0].gen = <<>>
    /\ proc[0].meta_lc = EmptyDict
    /\ \A w \in DOMAIN proc : proc[w].pc = "done"
    /\ nrecv = 2
    /\ mj = 2

\* C27 (Spec). Accumulator shape: in a worker every list of the accumulator
\* is as long as the number of light curves the worker has written in the
\* season; in the parent all the lists of a store have one length, which a
\* merge step raises by the number of light curves of the merged worker,
\* which the end of run() and the preparation of a tag set to 0 and which
\* no other step changes.
StoreLen(store) == IF DOMAIN store = {} THEN 0
                   ELSE Len(store[CHOOSE k \in DOMAIN store : TRUE])

C27_Shape ==
    /\ \A w \in DOMAIN proc :
          /\ \A key \in DOMAIN proc[w].meta_lc :
                Len(proc[w].meta_lc[key]) = Len(proc[w].wrote)
          /\ Len(proc[w].wrote) > 0 => DOMAIN proc[w].meta_lc # {}
    /\ \A t \in DOMAIN sn_meta :
          \A key \in DOMAIN sn_meta[t] : Len(sn_meta[t][key]) = StoreLen(sn_meta[t])

C27_Step ==
    /\ (pc = "merge" /\ pc' # "raised") =>
          StoreLen(sn_meta'[iproc]) = StoreLen(sn_meta[iproc]) + Len(proc[mj].wrote)
    /\ (pc = "seasons" /\ pc' = "idle") => StoreLen(sn_meta'[iproc]) = 0
    /\ (pc = "idle" /\ pc' = "seasons") =>
          (iproc' \in DOMAIN sn_meta' /\ StoreLen(sn_meta'[iproc']) = 0)
    /\ (pc \notin {"merge", "idle"} /\ pc' # "idle") => sn_meta' = sn_meta

C27_AccumulatorShape == []C27_Shape /\ [][C27_Step]_vars

\* the second season of a call has been merged: the store holds three
\* records, one of the first season and two of the second, written by two
\* workers
C27_Witness ==
    /\ pc = "return"
    /\ season = 2
    /\ Npp = 2
    /\ Len(proc[0].wrote) = 1
    /\ Len(proc[1].wrote) = 1
    /\ StoreLen(sn_meta[iproc]) = 3
    /\ sn_meta[iproc]["season"] = << 1, 2, 2 >>

\* C28 (SpecLoop). Empty-status tables are stored: with the Physics backend
\* a table without rows and with status -1 goes the way of every table: it
\* is put into the buffer and counts for the flush at 20 tables, and when
\* it is written it takes the next SNID, becomes an entry of the artifact
\* under its index and adds a record with n_lc_points = 0 and status = -1.
EmptyStatus(lc) == lc.n = 0 /\ lc.meta.status = -1

Pending(p) == IF p.pc = "loop" THEN p.list_lc
              ELSE IF p.pc \in {"dump", "lastdump"}
                   THEN SubSeq(p.list_lc, p.d, Len(p.list_lc))
                   ELSE <<>>

C28_EmptyTablesStored ==
    \A w \in Started :
        LET p == proc[w] IN
        (~IsFast /\ p.pc # "crashed") =>
            /\ Len(p.made) = p.k
            /\ \A i \in 1..Len(p.made) :
                  EmptyStatus(p.made[i]) =>
                      IF i <= Len(p.wrote)
                      THEN /\ p.wrote[i].lc = p.made[i]
                           /\ p.wrote[i].SNID = Pow10(iproc) + i
                           /\ LcPath(p.made[i], season) \in lcFile[iproc]
                           /\ p.meta_lc["index_hdf5"][i] = IndexOf(p.made[i].meta, season)
                           /\ p.meta_lc["n_lc_points"][i] = 0
                           /\ p.meta_lc["status"][i] = -1
                      ELSE /\ i - Len(p.wrote) <= Len(Pending(p))
                           /\ Pending(p)[i - Len(p.wrote)] = p.made[i]
            /\ p.pc = "loop" => Len(p.list_lc) = Len(p.made) - Len(p.wrote)
            /\ p.pc = "dump" => Len(p.list_lc) = FlushSize

\* a flush of 20 tables in the loop, begun after the 20th call: the buffer
\* holds six tables without rows, and the first of them, the third table,
\* has been written with SNID 13
C28_Witness ==
    /\ ~IsFast
    /\ 0 \in Started
    /\ proc[0].pc = "dump"
    /\ proc[0].k = 20
    /\ Cardinality({i \in 1..20 : EmptyStatus(proc[0].list_lc[i])}) = 6
    /\ Len(proc[0].wrote) = 3
    /\ EmptyStatus(proc[0].wrote[3].lc)
    /\ proc[0].wrote[3].SNID = Pow10(iproc) + 3
    /\ proc[0].meta_lc["n_lc_points"][3] = 0
    /\ proc[0].meta_lc["status"][3] = -1

\* C30 (SpecRerun). One-time preparation per tag: a call of run() with a tag
\* that the engine has not seen empties the two artifacts of that tag, sets
\* the counter of the tag to 10^tag and leaves the artifacts of the other
\* tags alone; a call with a tag already seen changes neither the artifacts
\* nor the counter nor the store; and after the start of a call nothing is
\* ever removed from an artifact and the counter of the parent stays as it
\* is, so later calls add to the artifacts the first call began.
C30_Step ==
    /\ (pc = "idle" /\ pc' = "seasons") =>
          IF iproc' \in nprocdict
          THEN UNCHANGED <<lcFile, simuFile, SNID, sn_meta, nprocdict>>
          ELSE /\ nprocdict' = nprocdict \cup {iproc'}
               /\ lcFile'[iproc'] = {}
               /\ simuFile'[iproc'] = {}
               /\ SNID'[iproc'] = Pow10(iproc')
               /\ \A t \in Tags \ {iproc'} :
                     /\ lcFile'[t] = lcFile[t]
                     /\ simuFile'[t] = simuFile[t]
                     /\ t \in DOMAIN SNID => SNID'[t] = SNID[t]
    /\ (pc # "idle") =>
          /\ UNCHANGED <<SNID, nprocdict>>
          /\ \A t \in Tags : /\ lcFile[t] \subseteq lcFile'[t]
                              /\ simuFile[t] \subseteq simuFile'[t]

C30_PreparedOncePerTag == [][C30_Step]_vars

\* a later call with the same tag: the artifact still holds the light curve
\* that an earlier call wrote for its season 2, the worker of season 1 of
\* this call has added its own under SNID 10^tag + 1, and the counter of
\* the parent is at its seed
C30_Witness ==
    /\ ~IsFast
    /\ pc = "join"
    /\ season = 1
    /\ iproc \in nprocdict
    /\ SNID[iproc] = Pow10(iproc)
    /\ Len(proc[0].wrote) = 1
    /\ proc[0].wrote[1].SNID = Pow10(iproc) + 1
    /\ lcFile[iproc] = { LcPath(nosim(GenParAt(1), 11, 2, 1), 2),
                         LcPath(proc[0].wrote[1].lc, 1) }
    /\ lcFile[iproc] \cap StaleFiles.lc = {}

\* C31 (SpecSummary). Summary matches light curves per run: between the
\* calls of run() every store is empty and the light curves of the artifact
\* of a tag are, one record each, those of the record-sets of the summary
\* of that tag, no record-set sharing a light curve with another; during a
\* call the light curves not yet in a record-set are, one record each,
\* those of the store of the tag and of the workers not yet merged.  So the
\* record-set that a call writes holds one record for each light curve the
\* call has written and no other.
PathsOfTable(table) ==
    IF "index_hdf5" \in DOMAIN table
    THEN { "lc_" \o table["index_hdf5"][i] : i \in 1..Len(table["index_hdf5"]) }
    ELSE {}

RECURSIVE SumRecords(_)
SumRecords(tables) ==
    IF tables = {} THEN 0
    ELSE LET tb == CHOOSE x \in tables : TRUE
         IN  StoreLen(tb) + SumRecords(tables \ {tb})

\* the accumulators of the workers whose result is not yet in the store
Unmerged(t) ==
    IF t # iproc \/ pc = "return" THEN {}
    ELSE { proc[w].meta_lc : w \in { v \in DOMAIN proc : pc = "merge" => v >= mj } }

C31_SummaryMatches ==
    /\ pc = "idle" => \A t \in DOMAIN sn_meta : sn_meta[t] = EmptyDict
    /\ (pc # "raised" /\ ~SomeCrashed) =>
          \A t \in nprocdict :
              LET written == { e.table : e \in simuFile[t] }
                  held    == {sn_meta[t]} \cup Unmerged(t)
              IN  /\ lcFile[t] = UNION { PathsOfTable(tb) : tb \in written \cup held }
                  /\ Cardinality(lcFile[t]) = SumRecords(written \cup held)
                  /\ Cardinality(simuFile[t]) = Cardinality(written)
                  /\ \A e \in simuFile[t] : StoreLen(e.table) > 0

\* two calls with one tag, for two pixels, have returned: the summary has
\* two record-sets, that of pixel 11 with two records and that of pixel 12
\* with one, and the artifact holds these three light curves
C31_Witness ==
    /\ pc = "idle"
    /\ \E t \in nprocdict :
          /\ sn_meta[t] = EmptyDict
          /\ Cardinality(lcFile[t]) = 3
          /\ \E e1 \in simuFile[t], e2 \in simuFile[t] :
                /\ e1.name = "summary_11" /\ StoreLen(e1.table) = 2
                /\ e2.name = "summary_12" /\ StoreLen(e2.table) = 1
                /\ PathsOfTable(e1.table) \cap PathsOfTable(e2.table) = {}
                /\ lcFile[t] = PathsOfTable(e1.table) \cup PathsOfTable(e2.table)

\* C32 (SpecNoSave), as stated: with Output.save set to false a call of
\* run() goes through normally: no worker dies or stands at a call that
\* raises, the parent does not raise, and no artifact is written.
C32_NoSaveRunsNormally ==
    ~cfg.save_status =>
        /\ pc # "raised"
        /\ \A w \in DOMAIN proc :
              /\ proc[w].pc # "crashed"
              /\ ~(InDump(w) /\ WriteRaises(w))
        /\ \A t \in Tags : lcFile[t] = {} /\ simuFile[t] = {}

====
